---------------------------- MODULE Spec2Model ----------------------------
(***************************************************************************)
(* A model of check_systemd (src/check_systemd.py): the unit cache and its *)
(* name filter, the per-unit and per-timer evaluation, the performance     *)
(* counters and the run of main().                                         *)
(*                                                                         *)
(* Texts (unit names, regular expressions) are sequences of one-character  *)
(* strings, so that matching, escaping and prefixes are computed and not   *)
(* assumed.  An optional value is the empty sequence (absent) or a         *)
(* one-element sequence (present).  Durations are whole seconds and         *)
(* thousandths.                                                            *)
(***************************************************************************)
EXTENDS Integers, Sequences, FiniteSets, TLC

VARIABLES
    opts,          \* the global OptionContainer
    pc,            \* the position of the process in the operation under way
    cache,         \* the Cache: [units: dict name -> unit, unit_names: set]
    added,         \* history: the (name, unit) pairs of the add calls, in order
    ret,           \* the last call of a Cache / NameFilter / Unit / Timers operation
    host,          \* what the host answers to the queries of this run
    queries,       \* history: the host queries launched, in order
    results,       \* the Results collected by the check: [context, name, state]
    perf,          \* the performance data collected: [name, value]
    verdict        \* the verdict of the run, "none" until it ends

vars == <<opts, pc, cache, added, ret, host, queries, results,
          perf, verdict>>

-----------------------------------------------------------------------------
(* Bounds of the model. *)

\* The number of Cache.add calls of one scenario.
MaxAdds == 3

\* The number of specs of one count_by_states call.
MaxSpecs == 3

\* The number of rows of the unit listing of one run.
MaxUnits == 2

\* The number of rows of the timer listing of one run.
MaxTimers == 1

-----------------------------------------------------------------------------
(* Values. *)

None == <<>>
Some(v) == <<v>>
IsNone(o) == o = <<>>
Val(o) == o[1]

\* nagiosplugin.state: Ok, Warn, Critical, Unknown
Ok == "ok"
Warn == "warning"
Critical == "critical"
Unknown == "unknown"

\* ServiceState.code: the exit code, which also orders the states.
StateCode(s) ==
    CASE s = Ok -> 0
      [] s = Warn -> 1
      [] s = Critical -> 2
      [] s = Unknown -> 3

\* The outcome of a function: an exception, or a value.
Raises(e) == [raised |-> e]
Returns(v) == [raised |-> "none", value |-> v]

ActiveState == {"active", "reloading", "inactive", "failed", "activating",
                "deactivating"}

LoadState == {"stub", "loaded", "not-found", "bad-setting", "error", "merged",
              "masked"}

SubState ==
    {"abandoned", "activating-done", "activating", "active", "auto-restart",
     "cleaning", "condition", "deactivating-sigkill", "deactivating-sigterm",
     "deactivating", "dead", "elapsed", "exited", "failed", "final-sigkill",
     "final-sigterm", "final-watchdog", "listening", "mounted",
     "mounting-done", "mounting", "plugged", "reload", "remounting-sigkill",
     "remounting-sigterm", "remounting", "running", "start-chown",
     "start-post", "start-pre", "start", "stop-post", "stop-pre-sigkill",
     "stop-pre-sigterm", "stop-pre", "stop-sigkill", "stop-sigterm",
     "stop-watchdog", "stop", "tentative", "unmounting-sigkill",
     "unmounting-sigterm", "unmounting", "waiting"}

\* The sub states the scenarios use, out of the 44 of the source.
SubStateSample == {"running", "dead", "failed"}

ToSet(s) == {s[i] : i \in 1..Len(s)}

IsInjective(s) == \A i, j \in 1..Len(s) : s[i] = s[j] => i = j

\* All sequences over S of length at most n.
SeqsUpTo(S, n) == UNION {[1..k -> S] : k \in 0..n}

\* All orders in which the elements of a finite set can be enumerated.
Orders(S) == {s \in [1..Cardinality(S) -> S] : IsInjective(s)}

RECURSIVE SelectSeqBy(_, _)
\* the elements e of sequence s with keep[e], in order
SelectSeqBy(s, keep) ==
    IF s = <<>> THEN <<>>
    ELSE (IF Head(s) \in keep THEN <<Head(s)>> ELSE <<>>)
         \o SelectSeqBy(Tail(s), keep)


-----------------------------------------------------------------------------
(* Regular expressions: re.match(regex, text) of the Python library, for    *)
(* the syntax the scenarios use: a literal character, "\" and a character   *)
(* (that character, literally), "." (any character), an atom followed by    *)
(* "*" (any number of repetitions), "$" (the end of the text) and a group   *)
(* "(" ... ")" of literal alternatives separated by "|".                    *)

\* The position of the ")" that closes the group opened at position i.
GroupEnd(r, i) ==
    CHOOSE k \in (i + 1)..Len(r) :
        r[k] = ")" /\ \A m \in (i + 1)..(k - 1) : r[m] # ")"

\* The alternatives of the group from position i to position k of r.
Alternatives(r, i, k) ==
    {SubSeq(r, p[1], p[2]) :
        p \in {q \in ((i + 1)..(k - 1)) \X ((i + 1)..(k - 1)) :
                /\ q[1] <= q[2]
                /\ q[1] = i + 1 \/ r[q[1] - 1] = "|"
                /\ q[2] = k - 1 \/ r[q[2] + 1] = "|"
                /\ \A m \in q[1]..q[2] : r[m] # "|"}}

AtomWidth(r, i) == IF r[i] = "\\" THEN 2 ELSE 1

AtomAccepts(r, i, c) ==
    IF r[i] = "\\" THEN c = r[i + 1]
    ELSE IF r[i] = "." THEN TRUE
    ELSE c = r[i]

RECURSIVE MatchAt(_, _, _, _)
\* regex r from its position i on matches text s from position j on; the
\* match may end before the end of s
MatchAt(r, i, s, j) ==
    IF i > Len(r) THEN TRUE
    ELSE IF r[i] = "$" THEN j > Len(s) /\ MatchAt(r, i + 1, s, j)
    ELSE IF r[i] = "("
    THEN LET k == GroupEnd(r, i)
         IN  \E alt \in Alternatives(r, i, k) :
                /\ j + Len(alt) - 1 <= Len(s)
                /\ SubSeq(s, j, j + Len(alt) - 1) = alt
                /\ MatchAt(r, k + 1, s, j + Len(alt))
    ELSE LET w == AtomWidth(r, i)
             starred == i + w <= Len(r) /\ r[i + w] = "*"
             here == j <= Len(s) /\ AtomAccepts(r, i, s[j])
         IN  IF starred
             THEN MatchAt(r, i + w + 1, s, j)
                  \/ (here /\ MatchAt(r, i, s, j + 1))
             ELSE here /\ MatchAt(r, i + w, s, j + 1)

\* a plausible bug: re.fullmatch, the regex must match up to the end
re_fullmatch(regex, text) == MatchAt(regex \o <<"$">>, 1, text, 1)

\* re.match: the regex matches at position 0 of the text
re_match(regex, text) == MatchAt(regex, 1, text, 1)

-----------------------------------------------------------------------------
(* Source.NameFilter *)

\* NameFilter.match: one of the regular expressions matches the name.  The
\* regexes are a set: a list's order and repetitions do not change the
\* result, and the options hold them as a set.
NameFilter_match(unit_name, regexes) ==
    \E regex \in regexes : re_match(regex, unit_name)

\* The body of the loop of NameFilter.filter for one name: the output, or
\* None.  A false value (None, no pattern) of include or exclude switches
\* that filter off.
FilterOutput(name, include, exclude) ==
    LET out1 == IF include # {} /\ ~NameFilter_match(name, include)
                THEN None ELSE name
        out2 == IF out1 # None /\ exclude # {} /\ NameFilter_match(name, exclude)
                THEN None ELSE out1
    IN  out2

\* a plausible bug: the loop ends at the first name that is filtered out
\* (break for continue)
NameFilter_filter_break(names, include, exclude) ==
    LET kept == {n \in names : FilterOutput(n, include, exclude) # None}
        UpToFirst(o) ==
            SubSeq(o, 1, IF \E i \in 1..Len(o) : o[i] \notin kept
                         THEN (CHOOSE i \in 1..Len(o) :
                                  /\ o[i] \notin kept
                                  /\ \A k \in 1..(i - 1) : o[k] \in kept) - 1
                         ELSE Len(o))
    IN  {UpToFirst(o) : o \in Orders(names)}

\* NameFilter.filter: the sequences the generator can yield.  __unit_names
\* is a Python set of strings, whose iteration order is fixed neither by the
\* order of the add calls nor by the names (string hashing is randomised
\* per process): every order of the set is a possible iteration.
NameFilter_filter(names, include, exclude) ==
    {SelectSeqBy(o, {n \in names : FilterOutput(n, include, exclude) # None})
        : o \in Orders(names)}

-----------------------------------------------------------------------------
(* Source.Cache *)

\* Cache.__init__
Cache_init == [units |-> <<>>, unit_names |-> {}]

\* a plausible bug: the name of a unit that replaces another is not added
Cache_add_units_only(c, name, unit) ==
    [units |-> (name :> unit) @@ c.units,
     unit_names |-> IF c.unit_names = {} THEN {name} ELSE c.unit_names]

\* a plausible bug: a name that is already stored keeps its first unit
Cache_add_keep_first(c, name, unit) ==
    [units |-> c.units @@ (name :> unit),
     unit_names |-> c.unit_names \cup {name}]

\* Cache.add
Cache_add(c, name, unit) ==
    [units |-> (name :> unit) @@ c.units,
     unit_names |-> c.unit_names \cup {name}]

\* Cache.get: None for a false name, KeyError for a name that is not stored
Cache_get(c, name) ==
    IF name = None THEN None
    ELSE IF name \in DOMAIN c.units THEN c.units[name]
    ELSE "KeyError"

\* Cache.filter: the sequences of units the generator can yield
Cache_filter(c, include, exclude) ==
    {[i \in 1..Len(ns) |-> c.units[ns[i]]]
        : ns \in NameFilter_filter(c.unit_names, include, exclude)}

\* Cache.count
Cache_count(c) == Cardinality(DOMAIN c.units)

RECURSIVE Split(_, _)
\* str.split(sep): the fields between the separators
Split(s, sep) ==
    IF s = <<>> THEN << <<>> >>
    ELSE LET rest == Split(Tail(s), sep)
         IN  IF Head(s) = sep THEN << <<>> >> \o rest
             ELSE << <<Head(s)>> \o rest[1] >> \o Tail(rest)

\* getattr(unit, property), as a text
GetAttr(unit, property) ==
    CASE property = <<"name">> -> unit.name
      [] property = <<"active_state">> -> <<unit.active_state>>
      [] property = <<"sub_state">> -> <<unit.sub_state>>
      [] property = <<"load_state">> -> <<unit.load_state>>

\* a plausible bug: a unit is counted under the first spec it matches only
Cache_count_by_states_first(c, states, include, exclude) ==
    LET kept == {n \in c.unit_names : FilterOutput(n, include, exclude) # None}
        hit(n, i) == GetAttr(c.units[n], Split(states[i], ":")[1])
                        = Split(states[i], ":")[2]
    IN  [spec \in ToSet(states) |->
            Cardinality({p \in kept \X (1..Len(states)) :
                /\ states[p[2]] = spec
                /\ hit(p[1], p[2])
                /\ \A k \in 1..(p[2] - 1) : ~hit(p[1], k)})]

\* Cache.count_by_states: the counter has one key per spec; every unit the
\* filter yields adds one to the entry of every element of states whose
\* property of the unit has its value.  (split(":")[0] and [1] are the
\* first and second field.)
Cache_count_by_states(c, states, include, exclude) ==
    LET kept == {n \in c.unit_names : FilterOutput(n, include, exclude) # None}
    IN  [spec \in ToSet(states) |->
            Cardinality({p \in kept \X (1..Len(states)) :
                /\ states[p[2]] = spec
                /\ GetAttr(c.units[p[1]], Split(states[p[2]], ":")[1])
                       = Split(states[p[2]], ":")[2]})]

-----------------------------------------------------------------------------
(* OptionContainer: the defaults of get_argparser. *)

TimersWarningDefault == 518400
TimersCriticalDefault == 604800
WarningDefault == 60
CriticalDefault == 120

DefaultOpts ==
    [ignore_inactive_state |-> FALSE,
     include |-> {},
     include_unit |-> None,
     exclude |-> {},
     expected_state |-> None,
     scope_timers |-> FALSE,
     timers_warning |-> TimersWarningDefault,
     timers_critical |-> TimersCriticalDefault,
     scope_startup_time |-> TRUE,
     warning |-> WarningDefault,
     critical |-> CriticalDefault,
     performance_data |-> TRUE,
     include_type |-> <<>>,
     exclude_unit |-> {},
     exclude_type |-> <<>>,
     data_source |-> "cli"]

\* What the variables of a run hold while no run is under way. Of the host,
\* is_gi says whether the import of the bus client library (gi) succeeded,
\* and argv holds the arguments --dbus or --cli of the command line.
NoHost == [list_units |-> None, show |-> None, analyze |-> None,
           list_timers |-> None, is_gi |-> FALSE, argv |-> <<>>]

Unit(name, active_state, sub_state, load_state) ==
    [name |-> name, active_state |-> active_state, sub_state |-> sub_state,
     load_state |-> load_state]

-----------------------------------------------------------------------------
(* Scenario "cache": any sequence of calls on one Cache.                    *)

NameAS == <<"a", ".", "s">>
NameASX == <<"a", ".", "s", "x">>
NameBT == <<"b", ".", "t">>

CacheNames == {NameAS, NameASX, NameBT}

CacheUnits ==
    {Unit(n, st[1], "running", st[2]) :
        n \in CacheNames,
        st \in {<<"active", "loaded">>, <<"failed", "loaded">>}}

RegexAS == <<"a", "\\", ".", "s">>            \* a\.s
RegexASEnd == <<"a", "\\", ".", "s", "$">>    \* a\.s$
RegexB == <<"b", ".", "*">>                   \* b.*
RegexX == <<".", "*", "x", "$">>              \* .*x$

IncludeArgs == {{}, {RegexAS}, {RegexB}, {RegexASEnd, RegexB}}
ExcludeArgs == {{}, {RegexX}, {RegexAS}, {RegexB, RegexASEnd}}

SpecActive == <<"active_state", ":", "active">>
SpecFailed == <<"active_state", ":", "failed">>
SpecLoaded == <<"load_state", ":", "loaded">>
SpecInactive == <<"active_state", ":", "inactive">>

\* The states arguments of count_by_states: lists of distinct specs (the
\* data model calls the argument a set of specs).
StatesArgs ==
    {s \in SeqsUpTo({SpecActive, SpecFailed, SpecLoaded, SpecInactive},
                    MaxSpecs) :
        IsInjective(s)}

InitCache ==
    /\ opts = DefaultOpts
    /\ pc = "cache"
    /\ cache = Cache_init
    /\ added = <<>>
    /\ ret = [op |-> "Cache"]
    /\ host = NoHost
    /\ queries = <<>>
    /\ results = <<>>
    /\ perf = <<>>
    /\ verdict = "none"

RunUnchanged == UNCHANGED <<opts, host, queries, results, perf, verdict>>

\* A query returns: the scenario ends (a query changes nothing, so that the
\* queries after it would return what they return here).
Returned == pc' = "returned" /\ UNCHANGED <<cache, added>>

\* cache.add(unit.name, unit)
CallAdd ==
    /\ pc = "cache"
    /\ Len(added) < MaxAdds
    /\ \E unit \in CacheUnits :
        /\ cache' = Cache_add(cache, unit.name, unit)
        /\ added' = Append(added, unit)
    /\ ret' = [op |-> "add"]
    /\ pc' = pc
    /\ RunUnchanged

\* cache.get(name)
CallGet ==
    /\ pc = "cache"
    /\ \E name \in CacheNames \cup {None} :
        ret' = [op |-> "get", name |-> name, out |-> Cache_get(cache, name)]
    /\ Returned
    /\ RunUnchanged

\* cache.count
CallCount ==
    /\ pc = "cache"
    /\ ret' = [op |-> "count", out |-> Cache_count(cache)]
    /\ Returned
    /\ RunUnchanged

\* list(name_filter.filter(include, exclude)), of the cache's name filter
CallNameFilter ==
    /\ pc = "cache"
    /\ \E include \in IncludeArgs, exclude \in ExcludeArgs :
        \E out \in NameFilter_filter(cache.unit_names, include, exclude) :
            ret' = [op |-> "NameFilter.filter", include |-> include,
                    exclude |-> exclude, out |-> out]
    /\ Returned
    /\ RunUnchanged

\* list(cache.filter(include, exclude))
CallFilter ==
    /\ pc = "cache"
    /\ \E include \in IncludeArgs, exclude \in ExcludeArgs :
        \E out \in Cache_filter(cache, include, exclude) :
            ret' = [op |-> "Cache.filter", include |-> include,
                    exclude |-> exclude, out |-> out]
    /\ Returned
    /\ RunUnchanged

\* cache.count_by_states(states, include, exclude)
CallCountByStates ==
    /\ pc = "cache"
    /\ \E states \in StatesArgs, include \in {{}, {RegexAS}},
          exclude \in {{}, {RegexX}} :
        ret' = [op |-> "count_by_states", states |-> states,
                include |-> include, exclude |-> exclude,
                out |-> Cache_count_by_states(cache, states, include, exclude)]
    /\ Returned
    /\ RunUnchanged

NextCache ==
    \/ CallAdd
    \/ CallGet
    \/ CallCount
    \/ CallNameFilter
    \/ CallFilter
    \/ CallCountByStates

SpecCache == InitCache /\ [][NextCache]_vars

(* Scenario "names": the calls of add, and one of a filter after them.      *)

NextNames ==
    \/ CallAdd
    \/ CallNameFilter
    \/ CallFilter

SpecNames == InitCache /\ [][NextNames]_vars

-----------------------------------------------------------------------------
(* Source.Unit.convert_to_exitcode *)

\* str.lower, on the spellings the scenarios use
Lower(s) ==
    CASE s \in {"ACTIVE", "Active"} -> "active"
      [] s = "FAILED" -> "failed"
      [] s = "Inactive" -> "inactive"
      [] OTHER -> s

\* a plausible bug: the load state is not looked at
convert_to_exitcode_active_only(unit, o) ==
    IF o.expected_state # None /\ Val(o.expected_state) # ""
       /\ Lower(Val(o.expected_state)) # unit.active_state
    THEN Critical
    ELSE IF unit.active_state = "failed" THEN Critical
    ELSE Ok

\* Unit.convert_to_exitcode, with the options o it reads
convert_to_exitcode(unit, o) ==
    IF o.expected_state # None /\ Val(o.expected_state) # ""
       /\ Lower(Val(o.expected_state)) # unit.active_state
    THEN Critical
    ELSE IF unit.load_state = "error" \/ unit.active_state = "failed"
    THEN Critical
    ELSE Ok

\* _check_active_state, _check_sub_state, _check_load_state: the state if it
\* is one of the literals, else None (the function ends without a return)
check_active_state(state) ==
    IF state # None /\ Val(state) \in ActiveState THEN state ELSE None

check_sub_state(state) ==
    IF state # None /\ Val(state) \in SubState THEN state ELSE None

check_load_state(state) ==
    IF state # None /\ Val(state) \in LoadState THEN state ELSE None

\* Unit.__check_active_state, __check_sub_state, __check_load_state: the
\* state if it is one of the literals, else ValueError
Unit_check_active_state(state) ==
    IF state # None /\ Val(state) \in ActiveState THEN Returns(Val(state))
    ELSE Raises("ValueError")

Unit_check_sub_state(state) ==
    IF state # None /\ Val(state) \in SubState THEN Returns(Val(state))
    ELSE Raises("ValueError")

Unit_check_load_state(state) ==
    IF state # None /\ Val(state) \in LoadState THEN Returns(Val(state))
    ELSE Raises("ValueError")

\* a plausible bug: a state that is omitted (None) is let through
Unit_init_omitted_allowed(name, active_state, sub_state, load_state) ==
    LET a == Unit_check_active_state(active_state)
        s == Unit_check_sub_state(sub_state)
        l == Unit_check_load_state(load_state)
    IN  IF active_state # None /\ a.raised # "none" THEN a
        ELSE IF sub_state # None /\ s.raised # "none" THEN s
        ELSE IF load_state # None /\ l.raised # "none" THEN l
        ELSE Returns([name |-> name, active_state |-> active_state,
                      sub_state |-> sub_state, load_state |-> load_state])

\* Unit.__init__: the three states are checked in turn, the first that is
\* not one of its literals raises
Unit_init(name, active_state, sub_state, load_state) ==
    LET a == Unit_check_active_state(active_state)
        s == Unit_check_sub_state(sub_state)
        l == Unit_check_load_state(load_state)
    IN  IF a.raised # "none" THEN a
        ELSE IF s.raised # "none" THEN s
        ELSE IF l.raised # "none" THEN l
        ELSE Returns(Unit(name, a.value, s.value, l.value))

\* a plausible bug: the exit code is compared by its number
ExitcodeIsNotZero_by_code(exitcode) == exitcode # Ok

\* exitcode != 0 for a ServiceState and an int: a ServiceState is a named
\* tuple (code, text), which no int equals
ExitcodeIsNotZero(exitcode) == TRUE

\* metric.value == text for a Unit and a str: Unit defines no __eq__, so the
\* comparison is by identity and never true
UnitEqualsStr(unit, text) == FALSE

\* UnitsContext.evaluate for the metric of a unit: the state of the Result
UnitsContext_evaluate(unit, o) ==
    LET exitcode == convert_to_exitcode(unit, o)
    IN  IF ExitcodeIsNotZero(exitcode) THEN exitcode
        ELSE IF o.ignore_inactive_state /\ UnitEqualsStr(unit, "failed")
        THEN Critical
        ELSE IF ~o.ignore_inactive_state /\ ~UnitEqualsStr(unit, "active")
        THEN Critical
        ELSE Ok

(* Scenario "unit": convert_to_exitcode of one unit under one required     *)
(* state.                                                                  *)

ExpectedStates ==
    {None} \cup {Some(s) : s \in ActiveState
                              \cup {"ACTIVE", "Active", "FAILED", "Inactive"}}

AllUnits ==
    {Unit(NameAS, a, s, l) :
        a \in ActiveState, s \in SubStateSample, l \in LoadState}

InitUnit ==
    /\ opts \in {[DefaultOpts EXCEPT !.expected_state = e] :
                    e \in ExpectedStates}
    /\ pc = "unit"
    /\ cache = Cache_init
    /\ added = <<>>
    /\ ret = [op |-> "Unit"]
    /\ host = NoHost
    /\ queries = <<>>
    /\ results = <<>>
    /\ perf = <<>>
    /\ verdict = "none"

\* unit.convert_to_exitcode()
CallConvertToExitcode ==
    /\ pc = "unit"
    /\ \E unit \in AllUnits :
        ret' = [op |-> "convert_to_exitcode", unit |-> unit,
                out |-> convert_to_exitcode(unit, opts)]
    /\ Returned
    /\ RunUnchanged

\* What a backend may hand over as a state: nothing, a literal of one of
\* the three enumerations, or another text.
StateValues ==
    {None} \cup {Some(s) : s \in {"active", "failed", "loaded", "masked",
                                  "running", "tentative", "Active", "invalid",
                                  ""}}

\* Unit(name, active_state, sub_state, load_state)
CallUnitInit ==
    /\ pc = "unit"
    /\ \E a \in StateValues, s \in StateValues, l \in StateValues :
        ret' = [op |-> "Unit.__init__", active_state |-> a, sub_state |-> s,
                load_state |-> l, out |-> Unit_init(NameAS, a, s, l)]
    /\ Returned
    /\ RunUnchanged

\* _check_active_state(state), _check_sub_state(state),
\* _check_load_state(state)
CallCheckState ==
    /\ pc = "unit"
    /\ \E state \in StateValues :
        \/ ret' = [op |-> "_check_active_state", state |-> state,
                   out |-> Returns(check_active_state(state))]
        \/ ret' = [op |-> "_check_sub_state", state |-> state,
                   out |-> Returns(check_sub_state(state))]
        \/ ret' = [op |-> "_check_load_state", state |-> state,
                   out |-> Returns(check_load_state(state))]
    /\ Returned
    /\ RunUnchanged

\* UnitsContext.evaluate(metric, resource) for the metric of one unit, once
\* with --ignore-inactive-state and once without it
CallUnitsContextEvaluate ==
    /\ pc = "unit"
    /\ \E unit \in AllUnits :
        ret' = [op |-> "UnitsContext.evaluate", unit |-> unit,
                with |-> UnitsContext_evaluate(unit,
                            [opts EXCEPT !.ignore_inactive_state = TRUE]),
                without |-> UnitsContext_evaluate(unit,
                            [opts EXCEPT !.ignore_inactive_state = FALSE])]
    /\ Returned
    /\ RunUnchanged

NextUnit ==
    \/ CallConvertToExitcode
    \/ CallUnitInit
    \/ CallCheckState
    \/ CallUnitsContextEvaluate

SpecUnit == InitUnit /\ [][NextUnit]_vars

-----------------------------------------------------------------------------
(* TimersResource.probe *)

\* A float that counts seconds, with 3 decimals: whole seconds and
\* thousandths (0..999).
Seconds(s, ms) == [s |-> s, ms |-> ms]

\* d >= n and d > n for a float d and a whole number n of seconds
AtLeast(d, n) == d.s >= n
Above(d, n) == d.s > n \/ (d.s = n /\ d.ms > 0)

\* The float is 0.0, which is false as a condition.
IsZero(d) == d.s = 0 /\ d.ms = 0

Timer(name, next, passed) == [name |-> name, next |-> next, passed |-> passed]

\* a plausible bug: the thresholds are compared with > instead of >=
TimerState_strict(timer, o) ==
    IF timer.next = None
    THEN IF timer.passed = None THEN Critical
         ELSE IF Above(Val(timer.passed), o.timers_critical) THEN Critical
         ELSE IF Above(Val(timer.passed), o.timers_warning) THEN Warn
         ELSE Ok
    ELSE Ok

\* The state that the loop body of TimersResource.probe gives a timer.
TimerState(timer, o) ==
    IF timer.next = None
    THEN IF timer.passed = None THEN Critical
         ELSE IF AtLeast(Val(timer.passed), o.timers_critical) THEN Critical
         ELSE IF AtLeast(Val(timer.passed), o.timers_warning) THEN Warn
         ELSE Ok
    ELSE Ok

Metric(name, value, context) ==
    [name |-> name, value |-> value, context |-> context]

RECURSIVE TimersResource_probe_included(_, _)
\* a plausible bug: the timers go through the include patterns as well
TimersResource_probe_included(timers, o) ==
    IF timers = <<>> THEN <<>>
    ELSE (IF FilterOutput(Head(timers).name, o.include, o.exclude) = None
          THEN <<>>
          ELSE <<Metric(Head(timers).name, TimerState(Head(timers), o),
                        "timers")>>)
         \o TimersResource_probe_included(Tail(timers), o)

RECURSIVE TimersResource_probe(_, _)
\* TimersResource.probe: the metrics yielded for the timers of the listing,
\* one for every timer whose name matches no exclude pattern
TimersResource_probe(timers, o) ==
    IF timers = <<>> THEN <<>>
    ELSE (IF NameFilter_match(Head(timers).name, o.exclude) THEN <<>>
          ELSE <<Metric(Head(timers).name, TimerState(Head(timers), o),
                        "timers")>>)
         \o TimersResource_probe(Tail(timers), o)

(* Scenario "timers": one probe of a timer listing under given thresholds. *)

NameAT == <<"a", ".", "t">>
NameCTimer == <<"c", ".", "t", "i", "m", "e", "r">>

ThresholdSample == {2, 4}

\* Passed times just below, at and just above the sampled thresholds.
PassedSample ==
    {Seconds(1, 999), Seconds(2, 0), Seconds(3, 0), Seconds(4, 0),
     Seconds(4, 1)}

TimerSample ==
    {Timer(n, nx, p) :
        n \in {NameAT, NameBT},
        nx \in {None, Some(Seconds(0, 0))},
        p \in {None} \cup {Some(t) : t \in PassedSample}}
    \cup {Timer(NameCTimer, None, None),
          Timer(NameCTimer, Some(Seconds(0, 0)), None)}

InitTimers ==
    /\ opts \in {[DefaultOpts EXCEPT !.scope_timers = TRUE,
                                     !.timers_warning = w,
                                     !.timers_critical = c,
                                     !.exclude = e] :
                    w \in ThresholdSample, c \in ThresholdSample,
                    e \in {{}, {RegexB}}}
    /\ pc = "timers"
    /\ cache = Cache_init
    /\ added = <<>>
    /\ ret = [op |-> "TimersResource"]
    /\ host = NoHost
    /\ queries = <<>>
    /\ results = <<>>
    /\ perf = <<>>
    /\ verdict = "none"

\* list(TimersResource(source).probe()), the source listing the timers
CallTimersProbe ==
    /\ pc = "timers"
    /\ \E timers \in SeqsUpTo(TimerSample, MaxTimers) :
        ret' = [op |-> "TimersResource.probe", timers |-> timers,
                out |-> TimersResource_probe(timers, opts)]
    /\ Returned
    /\ RunUnchanged

NextTimers == CallTimersProbe

SpecTimers == InitTimers /\ [][NextTimers]_vars

-----------------------------------------------------------------------------
(* The command line source: CliSource. *)

\* The printable ASCII characters, from code 32 (space) to code 126; the
\* grave accent (code 96), which cannot be written in a string here, by the
\* name of its code point.
AsciiChars ==
    << " ", "!", "\"", "#", "$", "%", "&", "'", "(", ")", "*", "+", ",",
       "-", ".", "/", "0", "1", "2", "3", "4", "5", "6", "7", "8", "9",
       ":", ";", "<", "=", ">", "?", "@", "A", "B", "C", "D", "E", "F",
       "G", "H", "I", "J", "K", "L", "M", "N", "O", "P", "Q", "R", "S",
       "T", "U", "V", "W", "X", "Y", "Z", "[", "\\", "]", "^", "_", "U+0060",
       "a", "b", "c", "d", "e", "f", "g", "h", "i", "j", "k", "l", "m",
       "n", "o", "p", "q", "r", "s", "t", "u", "v", "w", "x", "y", "z",
       "{", "|", "}", "~" >>

NewLine == "\n"

\* The character of an ASCII byte (printable, or line feed).
Chr(b) == IF b = 10 THEN NewLine ELSE AsciiChars[b - 31]

\* The byte of an ASCII character.
Ord(c) ==
    IF c = NewLine THEN 10
    ELSE 31 + CHOOSE k \in 1..Len(AsciiChars) : AsciiChars[k] = c

\* text.encode("utf-8") of an ASCII text: what a command writes
Encode(text) == [i \in 1..Len(text) |-> Ord(text[i])]

\* The character of a code point above the ASCII characters, by its name.
CodePoint(n) == "U+" \o ToString(n)

\* bytes.decode("utf-8"): an ASCII byte is its character, a lead byte
\* 0xC2..0xDF with one continuation byte 0x80..0xBF is the character of the
\* code point U+0080..U+07FF (here named by its number), and a byte that
\* fits neither raises UnicodeDecodeError. Longer sequences are not among
\* the outputs considered.
utf8_decode(bytes) ==
    LET n == Len(bytes)
        ascii(k) == bytes[k] = 10 \/ (bytes[k] >= 32 /\ bytes[k] <= 126)
        lead(k) == bytes[k] >= 194 /\ bytes[k] <= 223
        cont(k) == bytes[k] >= 128 /\ bytes[k] <= 191
        misplaced == {k \in 1..n :
                        \/ ~(ascii(k) \/ lead(k) \/ cont(k))
                        \/ lead(k) /\ ~(k < n /\ cont(k + 1))
                        \/ cont(k) /\ ~(k > 1 /\ lead(k - 1))}
        conts == {k \in 1..n : cont(k)}
        \* the byte at which the i-th character starts
        start(i) == CHOOSE k \in (1..n) \ conts :
                        k - Cardinality({j \in conts : j < k}) = i
        char(k) == IF lead(k)
                   THEN CodePoint((bytes[k] - 192) * 64 + (bytes[k + 1] - 128))
                   ELSE Chr(bytes[k])
    IN  IF misplaced # {} THEN Raises("UnicodeDecodeError")
        ELSE Returns([i \in 1..(n - Cardinality(conts)) |-> char(start(i))])

\* What running a command gives: Popen raises OSError, or the process ends
\* with a return code and what it wrote to stderr and stdout (bytes).
Process(oserror, returncode, stderr, stdout) ==
    [oserror |-> oserror, returncode |-> returncode,
     stderr |-> stderr, stdout |-> stdout]

\* a plausible bug: stdout is looked at before stderr
execute_cli_stdout_first(p) ==
    IF p.oserror THEN Raises("CheckError")
    ELSE IF p.returncode # 0 THEN Raises("CheckError")
    ELSE IF p.stdout # <<>>
    THEN LET text == utf8_decode(p.stdout)
         IN  IF text.raised # "none" THEN text
             ELSE Returns(Some(text.value))
    ELSE IF p.stderr # <<>> THEN Raises("CheckError")
    ELSE Returns(None)

\* CliSource.__execute_cli
execute_cli(p) ==
    IF p.oserror THEN Raises("CheckError")
    ELSE IF p.returncode # 0 THEN Raises("CheckError")
    ELSE IF p.stderr # <<>> THEN Raises("CheckError")
    ELSE IF p.stdout # <<>>
    THEN LET text == utf8_decode(p.stdout)
         IN  IF text.raised # "none" THEN text
             ELSE Returns(Some(text.value))
    ELSE Returns(None)

(* Texts and numbers.  A float that counts seconds is kept exactly, as whole *)
(* seconds and a fraction: [s, ms] with ms thousandths in 0..999 for a      *)
(* value rounded to 3 decimals, [s, us] with us millionths while summing.   *)

Digits == <<"0", "1", "2", "3", "4", "5", "6", "7", "8", "9">>
DigitValue(c) == (CHOOSE k \in 1..10 : Digits[k] = c) - 1

\* [a-z]
LowerLetters == {AsciiChars[k] : k \in 66..91}

\* The characters str.split() splits at (of those in the texts considered).
IsSpace(c) == c = " " \/ c = NewLine

StartsWith(text, prefix) ==
    Len(text) >= Len(prefix) /\ SubSeq(text, 1, Len(prefix)) = prefix

Drop(text, n) == SubSeq(text, n + 1, Len(text))

RECURSIVE str_replace(_, _, _)
\* text.replace(old, new), old not empty: the occurrences of old are
\* replaced from the left, each found after the end of the one before it
str_replace(text, old, new) ==
    LET at == {i \in 0..(Len(text) - Len(old)) :
                    SubSeq(text, i + 1, i + Len(old)) = old}
    IN  IF at = {} THEN text
        ELSE LET i == CHOOSE a \in at : \A b \in at : a <= b
             IN  SubSeq(text, 1, i) \o new
                 \o str_replace(Drop(text, i + Len(old)), old, new)

\* The length of the longest prefix of the text whose characters are all in
\* the set S (in = TRUE) or all outside it (in = FALSE).
RunLength(text, S, in) ==
    LET stop == {k \in 1..Len(text) : ~((text[k] \in S) <=> in)}
    IN  IF stop = {} THEN Len(text)
        ELSE (CHOOSE a \in stop : \A b \in stop : a <= b) - 1

\* text.split(): the maximal runs of characters that are not whitespace
str_split(text) ==
    LET begins == {i \in 1..Len(text) :
                    ~IsSpace(text[i]) /\ (i = 1 \/ IsSpace(text[i - 1]))}
        begin(k) == CHOOSE i \in begins :
                        Cardinality({j \in begins : j < i}) = k - 1
        run(i) == RunLength(Drop(text, i - 1), {" ", NewLine}, FALSE)
    IN  [k \in 1..Cardinality(begins) |->
            SubSeq(text, begin(k), begin(k) + run(begin(k)) - 1)]

RECURSIVE SearchSpan(_)
\* re.search(r"([\d\.]+)([a-z]+)", span): the two groups of the leftmost
\* match, or None. A run of digits and dots matches only as a whole, when a
\* lower-case letter follows it.
SearchSpan(span) ==
    IF span = <<>> THEN None
    ELSE LET n == RunLength(span, ToSet(Digits) \cup {"."}, TRUE)
             k == RunLength(Drop(span, n), LowerLetters, TRUE)
         IN  IF n = 0
             THEN SearchSpan(Drop(span, RunLength(span, ToSet(Digits)
                                                        \cup {"."}, FALSE)))
             ELSE IF k = 0 THEN SearchSpan(Drop(span, n))
             ELSE Some([value |-> SubSeq(span, 1, n),
                        unit |-> SubSeq(span, n + 1, n + k)])

RECURSIVE DigitsValue(_)
\* int(digits), 0 for no digit
DigitsValue(digits) ==
    IF digits = <<>> THEN 0
    ELSE DigitsValue(SubSeq(digits, 1, Len(digits) - 1)) * 10
         + DigitValue(digits[Len(digits)])

\* float(value) for a text of digits and dots: ValueError unless it has a
\* digit and at most one dot; else the number as [i, f], f the thousandths
\* (the texts considered have at most three decimals).
float(value) ==
    LET dots == {k \in 1..Len(value) : value[k] = "."}
    IN  IF Cardinality(dots) > 1 \/ Cardinality(dots) = Len(value)
        THEN Raises("ValueError")
        ELSE LET dot == IF dots = {} THEN Len(value) + 1
                        ELSE CHOOSE k \in dots : TRUE
                 frac == SubSeq(value, dot + 1, Len(value))
                 pad == SubSeq(frac \o <<"0", "0", "0">>, 1, 3)
             IN  Returns([i |-> DigitsValue(SubSeq(value, 1, dot - 1)),
                          f |-> DigitsValue(pad)])

SecondsPerYear == 31536000
SecondsPerMonth == 2592000
SecondsPerWeek == 604800
SecondsPerDay == 86400
SecondsPerHour == 3600
SecondsPerMinute == 60
SecondsPerSecond == 1

\* The dict seconds, but for its entry "ms": 0.001.
seconds ==
    (<<"y">> :> SecondsPerYear) @@ (<<"m", "o", "n", "t", "h">> :> SecondsPerMonth)
    @@ (<<"w">> :> SecondsPerWeek) @@ (<<"d">> :> SecondsPerDay)
    @@ (<<"h">> :> SecondsPerHour) @@ (<<"m", "i", "n">> :> SecondsPerMinute)
    @@ (<<"s">> :> SecondsPerSecond)

Millisecond == <<"m", "s">>

\* float(value) * seconds[unit] as [s, us], for a unit of the dict
Times(n, unit) ==
    IF unit = Millisecond
    THEN LET us == n.i * 1000 + n.f
         IN  [s |-> us \div 1000000, us |-> us % 1000000]
    ELSE LET m == seconds[unit]
             high == m \div 1000
             low == m % 1000
         IN  [s |-> n.i * m + n.f * high + (n.f * low) \div 1000,
              us |-> ((n.f * low) % 1000) * 1000]

Plus(a, b) ==
    [s |-> a.s + b.s + (a.us + b.us) \div 1000000,
     us |-> (a.us + b.us) % 1000000]

\* round(result, 3): the nearest value with 3 decimals; which one a value
\* halfway between two is rounded to depends on its binary form, and is
\* either of the two.
round3(v) ==
    LET down == [s |-> v.s, ms |-> v.us \div 1000]
        up == IF down.ms = 999 THEN [s |-> v.s + 1, ms |-> 0]
              ELSE [s |-> v.s, ms |-> down.ms + 1]
        rest == v.us % 1000
    IN  IF rest < 500 THEN {down}
        ELSE IF rest > 500 THEN {up}
        ELSE {down, up}

RECURSIVE SumSpans(_, _)
\* The loop over the spans: the sum, or the exception of float() or of
\* seconds[unit].
SumSpans(spans, result) ==
    IF spans = <<>> THEN Returns(result)
    ELSE LET match == SearchSpan(Head(spans))
         IN  IF match = None THEN SumSpans(Tail(spans), result)
             ELSE LET n == float(Val(match).value)
                      unit == Val(match).unit
                  IN  IF n.raised # "none" THEN n
                      ELSE IF unit # Millisecond /\ unit \notin DOMAIN seconds
                      THEN Raises("KeyError")
                      ELSE SumSpans(Tail(spans),
                                    Plus(result, Times(n.value, unit)))

Contract(text) ==
    LET years == str_replace(text, <<" ", "y", "e", "a", "r", "s">>, <<"y">>)
        months == str_replace(years, <<" ", "m", "o", "n", "t", "h", "s">>,
                              <<"m", "o", "n", "t", "h">>)
        weeks == str_replace(months, <<" ", "w", "e", "e", "k", "s">>, <<"w">>)
    IN  str_replace(weeks, <<" ", "d", "a", "y", "s">>, <<"d">>)

\* CliSource.__convert_to_sec: the outcomes it can have
convert_to_sec(fmt_timespan) ==
    LET sum == SumSpans(str_split(Contract(fmt_timespan)), [s |-> 0, us |-> 0])
    IN  IF sum.raised # "none" THEN {sum}
        ELSE {Returns(r) : r \in round3(sum.value)}

\* re.search(prefix + "(.+)" + suffix, text) for two literal texts: the
\* group of the leftmost match, the longest one from there, or None. The
\* group is not empty and has no line feed.
re_search_group(text, prefix, suffix) ==
    LET At(i, part) == StartsWith(Drop(text, i - 1), part)
        Ends(i) ==
            {j \in (i + Len(prefix) + 1)..Len(text) :
                /\ At(j, suffix)
                /\ \A k \in (i + Len(prefix))..(j - 1) : text[k] # NewLine}
        starts == {i \in 1..Len(text) : At(i, prefix) /\ Ends(i) # {}}
    IN  IF starts = {} THEN None
        ELSE LET i == CHOOSE a \in starts : \A b \in starts : a <= b
                 j == CHOOSE a \in Ends(i) : \A b \in Ends(i) : a >= b
             IN  Some(SubSeq(text, i + Len(prefix), j - 1))

ReachedAfter ==
    <<"r", "e", "a", "c", "h", "e", "d", " ", "a", "f", "t", "e", "r", " ">>
InUserspace == <<" ", "i", "n", " ", "u", "s", "e", "r", "s", "p", "a", "c", "e">>

\* a plausible bug: the failure of the command is not caught
get_startup_time_uncaught(p) ==
    LET run == execute_cli(p)
    IN  IF run.raised # "none" THEN {run}
        ELSE IF run.value = None \/ Val(run.value) = <<>>
        THEN {Returns(None)}
        ELSE LET stdout == Val(run.value)
                 first == re_search_group(stdout, ReachedAfter, InUserspace)
                 match == IF first # None THEN first
                          ELSE re_search_group(stdout, <<" ", "=", " ">>,
                                               <<NewLine>>)
             IN  IF match = None THEN {Returns(None)}
                 ELSE {IF sec.raised # "none" THEN sec
                       ELSE Returns(Some(sec.value)) :
                            sec \in convert_to_sec(Val(match))}

\* CliSource.get_startup_time: the outcomes it can have, the command
\* systemd-analyze ending as the process p says
get_startup_time(p) ==
    LET run == execute_cli(p)
    IN  IF run.raised # "none" /\ run.raised # "CheckError" THEN {run}
        ELSE IF run.raised = "CheckError" \/ run.value = None
                \/ Val(run.value) = <<>>
        THEN {Returns(None)}
        ELSE LET stdout == Val(run.value)
                 first == re_search_group(stdout, ReachedAfter, InUserspace)
                 match == IF first # None THEN first
                          ELSE re_search_group(stdout, <<" ", "=", " ">>,
                                               <<NewLine>>)
             IN  IF match = None THEN {Returns(None)}
                 ELSE {IF sec.raised # "none" THEN sec
                       ELSE Returns(Some(sec.value)) :
                            sec \in convert_to_sec(Val(match))}

(* CliSource.Table: the text tables of systemctl. A table is the record of  *)
(* the attributes header_row, column_lengths, columns and body_rows; a row  *)
(* (a dict) is a function from its keys to its values.                      *)

\* [A-Z]
UpperLetters == {AsciiChars[k] : k \in 34..59}

\* str.lower of an ASCII text
str_lower(text) ==
    [i \in 1..Len(text) |->
        IF text[i] \in UpperLetters THEN Chr(Ord(text[i]) + 32) ELSE text[i]]

\* text.strip(): without the whitespace at both ends
str_strip(text) ==
    LET kept == {k \in 1..Len(text) : ~IsSpace(text[k])}
    IN  IF kept = {} THEN <<>>
        ELSE SubSeq(text, CHOOSE a \in kept : \A b \in kept : a <= b,
                          CHOOSE a \in kept : \A b \in kept : a >= b)

\* text.find(sub): the lowest index (from 0) at which sub occurs, or -1
str_find(text, sub) ==
    LET at == {i \in 0..(Len(text) - Len(sub)) :
                    SubSeq(text, i + 1, i + Len(sub)) = sub}
    IN  IF at = {} THEN -1 ELSE CHOOSE a \in at : \A b \in at : a <= b

\* text.splitlines() for a text whose only line boundary is the line feed:
\* line i lies between the line feeds i - 1 and i, and a text that does not
\* end with a line feed has a last line after its last line feed
str_splitlines(text) ==
    LET feeds == {k \in 1..Len(text) : text[k] = NewLine}
        n == Cardinality(feeds)
        \* the position of line feed i; 0 and Len(text) + 1 bound the text
        feed(i) == IF i = 0 THEN 0
                   ELSE IF i > n THEN Len(text) + 1
                   ELSE CHOOSE k \in feeds :
                            Cardinality({j \in feeds : j < k}) = i - 1
        count == IF text # <<>> /\ text[Len(text)] # NewLine THEN n + 1 ELSE n
    IN  [i \in 1..count |-> SubSeq(text, feed(i - 1) + 1, feed(i) - 1)]

RECURSIVE int_str(_)
\* str(n) of a natural number
int_str(n) ==
    IF n < 10 THEN <<Digits[n + 1]>>
    ELSE int_str(n \div 10) \o <<Digits[(n % 10) + 1]>>

\* line[left:right]
Slice(line, left, right) ==
    SubSeq(line, left + 1, IF right < Len(line) THEN right ELSE Len(line))

\* a plausible bug: words that one blank separates are one column
Table_detect_lengths_wide_gaps(header_row) ==
    LET prefix == RunLength(header_row, {" "}, TRUE)
        rest == Drop(header_row, prefix)
        begins == {i \in 1..Len(rest) :
                    /\ rest[i] # " "
                    /\ i = 1 \/ (i > 2 /\ rest[i - 1] = " "
                                        /\ rest[i - 2] = " ")}
        begin(k) == CHOOSE i \in begins :
                        Cardinality({j \in begins : j < i}) = k - 1
    IN  (IF prefix > 0 THEN <<prefix>> ELSE <<>>)
        \o [k \in 1..(Cardinality(begins) - 1) |-> begin(k + 1) - begin(k)]

\* Table.__detect_lengths: the width of the blank prefix, if any, then of
\* every column but the last. The loop counts the characters of a word and
\* of the blanks after it, and appends word + space when a character that
\* is no blank follows a blank: the number of characters from the place
\* where the column begins to the place where the next column begins.
Table_detect_lengths(header_row) ==
    LET prefix == RunLength(header_row, {" "}, TRUE)
        rest == Drop(header_row, prefix)
        \* the places where a column begins
        begins == {i \in 1..Len(rest) :
                    rest[i] # " " /\ (i = 1 \/ rest[i - 1] = " ")}
        begin(k) == CHOOSE i \in begins :
                        Cardinality({j \in begins : j < i}) = k - 1
    IN  (IF prefix > 0 THEN <<prefix>> ELSE <<>>)
        \o [k \in 1..(Cardinality(begins) - 1) |-> begin(k + 1) - begin(k)]

RECURSIVE SplitLoop(_, _, _)
SplitLoop(line, column_lengths, right) ==
    IF column_lengths = <<>>
    THEN <<str_strip(Slice(line, right, Len(line)))>>
    ELSE <<str_strip(Slice(line, right, right + Head(column_lengths)))>>
         \o SplitLoop(line, Tail(column_lengths),
                      right + Head(column_lengths))

\* Table.__split_row
Table_split_row(line, column_lengths) == SplitLoop(line, column_lengths, 0)

\* Table.__init__: rows[0] of a text without a line raises IndexError
Table_init(stdout) ==
    LET rows == str_splitlines(stdout)
    IN  IF rows = <<>> THEN Raises("IndexError")
        ELSE LET header_row == str_lower(rows[1])
                 column_lengths == Table_detect_lengths(header_row)
                 blank == {k \in 1..Len(rows) : rows[k] = <<>>}
                 counter ==
                    IF blank = {} THEN Len(rows)
                    ELSE (CHOOSE a \in blank : \A b \in blank : a <= b) - 1
             IN  Returns([header_row |-> header_row,
                          column_lengths |-> column_lengths,
                          columns |-> Table_split_row(header_row,
                                                      column_lengths),
                          body_rows |-> SubSeq(rows, 2, counter)])

\* Table.row_count
Table_row_count(table) == Len(table.body_rows)

\* Table.check_header
Table_check_header(table, column_header) ==
    LET missing == {k \in 1..Len(column_header) :
                        str_find(table.header_row,
                                 str_lower(column_header[k])) = -1}
    IN  IF missing = {} THEN Returns(None) ELSE Raises("ValueError")

ColumnPrefix == <<"c", "o", "l", "u", "m", "n", "_">>

\* a plausible bug: the columns without a header are numbered from 1
Table_get_row_from_one(table, row_number) ==
    IF row_number >= Len(table.body_rows) THEN Raises("IndexError")
    ELSE LET body_columns == Table_split_row(table.body_rows[row_number + 1],
                                             table.column_lengths)
             key(i) == IF table.columns[i] = <<>>
                       THEN ColumnPrefix \o int_str(i)
                       ELSE table.columns[i]
             keys == {key(i) : i \in 1..Len(table.columns)}
             last(k) == CHOOSE i \in 1..Len(table.columns) :
                            /\ key(i) = k
                            /\ \A j \in 1..Len(table.columns) :
                                    key(j) = k => j <= i
         IN  Returns([k \in keys |-> body_columns[last(k)]])

\* Table.get_row: a key that comes twice keeps the value set last
Table_get_row(table, row_number) ==
    IF row_number >= Len(table.body_rows) THEN Raises("IndexError")
    ELSE LET body_columns == Table_split_row(table.body_rows[row_number + 1],
                                             table.column_lengths)
             key(i) == IF table.columns[i] = <<>>
                       THEN ColumnPrefix \o int_str(i - 1)
                       ELSE table.columns[i]
             keys == {key(i) : i \in 1..Len(table.columns)}
             last(k) == CHOOSE i \in 1..Len(table.columns) :
                            /\ key(i) = k
                            /\ \A j \in 1..Len(table.columns) :
                                    key(j) = k => j <= i
         IN  Returns([k \in keys |-> body_columns[last(k)]])

\* Table.list_rows
Table_list_rows(table) ==
    [i \in 1..Table_row_count(table) |-> Table_get_row(table, i - 1).value]

\* The column names that get_all_units and get_all_timers look up.
ColumnUnit == <<"u", "n", "i", "t">>
ColumnNext == <<"n", "e", "x", "t">>
ColumnPassed == <<"p", "a", "s", "s", "e", "d">>
ColumnActive == <<"a", "c", "t", "i", "v", "e">>
ColumnSub == <<"s", "u", "b">>
ColumnLoad == <<"l", "o", "a", "d">>

NotAvailable == <<"n", "/", "a">>

\* The timer of a row of the listing of timers: the outcomes that the loop
\* body of get_all_timers can have. A row without one of the keys raises
\* KeyError; the time next is converted before the time passed.
RowTimer(row) ==
    IF ColumnUnit \notin DOMAIN row \/ ColumnNext \notin DOMAIN row
    THEN {Raises("KeyError")}
    ELSE LET absent == {Returns(None)}
             some(outs) == {IF out.raised # "none" THEN out
                            ELSE Returns(Some(out.value)) : out \in outs}
             nexts == IF row[ColumnNext] # NotAvailable
                      THEN some(convert_to_sec(row[ColumnNext]))
                      ELSE absent
         IN  UNION {IF next.raised # "none" THEN {next}
                    ELSE IF ColumnPassed \notin DOMAIN row
                    THEN {Raises("KeyError")}
                    ELSE {IF passed.raised # "none" THEN passed
                          ELSE Returns(Timer(row[ColumnUnit], next.value,
                                             passed.value)) :
                            passed \in
                                IF row[ColumnPassed] # NotAvailable
                                THEN some(convert_to_sec(row[ColumnPassed]))
                                ELSE absent} :
                    next \in nexts}

RECURSIVE RowTimers(_)
\* The timers of the rows, up to the first row that raises.
RowTimers(rows) ==
    IF rows = <<>> THEN {Returns(<<>>)}
    ELSE UNION {IF head.raised # "none" THEN {head}
                ELSE {IF tail.raised # "none" THEN tail
                      ELSE Returns(<<head.value>> \o tail.value) :
                        tail \in RowTimers(Tail(rows))} :
                head \in RowTimer(Head(rows))}

\* a plausible bug: the time passed is absent when the time next is n/a
get_all_timers_passed_as_next(p) ==
    LET run == execute_cli(p)
    IN  IF run.raised # "none" THEN {run}
        ELSE IF run.value = None \/ Val(run.value) = <<>>
        THEN {Returns(<<>>)}
        ELSE LET table_parser == Table_init(Val(run.value)).value
                 header == Table_check_header(table_parser,
                                <<ColumnUnit, ColumnNext, ColumnPassed>>)
                 rows == Table_list_rows(table_parser)
             IN  IF header.raised # "none" THEN {header}
                 ELSE RowTimers([i \in 1..Len(rows) |->
                        IF ColumnNext \in DOMAIN rows[i]
                           /\ ColumnPassed \in DOMAIN rows[i]
                           /\ rows[i][ColumnNext] = NotAvailable
                        THEN [rows[i] EXCEPT ![ColumnPassed] = NotAvailable]
                        ELSE rows[i]])

\* list(CliSource.get_all_timers()): the outcomes it can have
get_all_timers(p) ==
    LET run == execute_cli(p)
    IN  IF run.raised # "none" THEN {run}
        ELSE IF run.value = None \/ Val(run.value) = <<>>
        THEN {Returns(<<>>)}
        ELSE LET table_parser == Table_init(Val(run.value)).value
                 header == Table_check_header(table_parser,
                                <<ColumnUnit, ColumnNext, ColumnPassed>>)
             IN  IF header.raised # "none" THEN {header}
                 ELSE RowTimers(Table_list_rows(table_parser))

\* What a query hands over: the records it yields, or the exception that
\* ends it and the records it yields before.
Failed(e, rows) == [kind |-> "error", raised |-> e, rows |-> rows]
Rows(rows) == [kind |-> "rows", rows |-> rows]

\* The CheckError of __execute_cli, before anything is yielded.
Error == Failed("CheckError", <<>>)

RECURSIVE Str(_)
\* "".join(text): the str of a sequence of characters
Str(text) ==
    IF text = <<>> THEN ""
    ELSE IF Len(text) = 1 THEN text[1]
    ELSE Str(SubSeq(text, 1, Len(text) \div 2))
            \o Str(SubSeq(text, Len(text) \div 2 + 1, Len(text)))

\* The unit of a row of the listing of units: a row without one of the keys
\* raises KeyError, a state that is none of the literals ValueError.
RowUnit(row) ==
    IF {ColumnUnit, ColumnActive, ColumnSub, ColumnLoad} \subseteq DOMAIN row
    THEN Unit_init(row[ColumnUnit], Some(Str(row[ColumnActive])),
                   Some(Str(row[ColumnSub])), Some(Str(row[ColumnLoad])))
    ELSE Raises("KeyError")

\* a plausible bug: the rows that make no unit are left out
get_all_units_skipping(p) ==
    LET run == execute_cli(p)
    IN  IF run.raised # "none" \/ run.value = None THEN Rows(<<>>)
        ELSE LET table_parser == Table_init(Val(run.value)).value
                 rows == Table_list_rows(table_parser)
                 good == {i \in 1..Len(rows) : RowUnit(rows[i]).raised = "none"}
                 nth(k) == CHOOSE i \in good :
                            Cardinality({j \in good : j <= i}) = k
             IN  Rows([k \in 1..Cardinality(good) |->
                            RowUnit(rows[nth(k)]).value])

\* CliSource.get_all_units: the units it yields, and the exception that ends
\* it if one does
get_all_units(p) ==
    LET run == execute_cli(p)
    IN  IF run.raised # "none" THEN Failed(run.raised, <<>>)
        ELSE IF run.value = None \/ Val(run.value) = <<>> THEN Rows(<<>>)
        ELSE LET table_parser == Table_init(Val(run.value)).value
                 header == Table_check_header(table_parser,
                            <<ColumnUnit, ColumnActive, ColumnSub,
                              ColumnLoad>>)
                 rows == Table_list_rows(table_parser)
                 bad == {i \in 1..Len(rows) : RowUnit(rows[i]).raised # "none"}
                 first == IF bad = {} THEN Len(rows) + 1
                          ELSE CHOOSE a \in bad : \A b \in bad : a <= b
                 yielded == [i \in 1..(first - 1) |-> RowUnit(rows[i]).value]
             IN  IF header.raised # "none" THEN Failed(header.raised, <<>>)
                 ELSE IF bad = {} THEN Rows(yielded)
                 ELSE Failed(RowUnit(rows[first]).raised, yielded)

\* The properties that get_unit asks systemctl show for.
PropertyId == <<"I", "d">>
PropertyActiveState ==
    <<"A", "c", "t", "i", "v", "e", "S", "t", "a", "t", "e">>
PropertySubState == <<"S", "u", "b", "S", "t", "a", "t", "e">>
PropertyLoadState == <<"L", "o", "a", "d", "S", "t", "a", "t", "e">>

\* CliSource.get_unit: the unit of the properties, or the exception
get_unit(p) ==
    LET run == execute_cli(p)
    IN  IF run.raised # "none" THEN Failed(run.raised, <<>>)
        ELSE IF run.value = None THEN Failed("CheckSystemdError", <<>>)
        ELSE LET rows == str_splitlines(Val(run.value))
                 index_equal_sign(i) == str_find(rows[i], <<"=">>)
                 key(i) == SubSeq(rows[i], 1, index_equal_sign(i))
                 value(i) == SubSeq(rows[i], index_equal_sign(i) + 2,
                                    Len(rows[i]))
                 has(k) == \E i \in 1..Len(rows) : key(i) = k
                 properties(k) ==
                    value(CHOOSE i \in 1..Len(rows) :
                            /\ key(i) = k
                            /\ \A j \in 1..Len(rows) : key(j) = k => j <= i)
             IN  IF \E i \in 1..Len(rows) : index_equal_sign(i) = -1
                 THEN Failed("ValueError", <<>>)
                 ELSE IF \E k \in {PropertyId, PropertyActiveState,
                                   PropertySubState, PropertyLoadState} :
                            ~has(k)
                 THEN Failed("KeyError", <<>>)
                 ELSE LET unit == Unit_init(properties(PropertyId),
                            check_active_state(
                                Some(Str(properties(PropertyActiveState)))),
                            check_sub_state(
                                Some(Str(properties(PropertySubState)))),
                            check_load_state(
                                Some(Str(properties(PropertyLoadState)))))
                      IN  IF unit.raised # "none"
                          THEN Failed(unit.raised, <<>>)
                          ELSE Rows(<<unit.value>>)

(* Scenario "source": one call of a function of the command line source. *)

\* stdout of a command: nothing, a text, a two-byte character, and two
\* byte sequences that are not UTF-8.
StdoutSample ==
    {<<>>, Encode(<<"o", "k", NewLine>>), <<195, 169>>, <<111, 255>>, <<195>>}

ProcessSample ==
    {Process(e, rc, err, out) :
        e \in BOOLEAN, rc \in {0, 1},
        err \in {<<>>, Encode(<<"e">>)}, out \in StdoutSample}

\* Timespans as systemd prints them (relative timestamps, time spans, a
\* date), and texts that are none.
TimespanSample ==
    {<<"1", "s">>,
     <<"1", "s", " ", "a", "g", "o">>,
     <<"1", "1", "s">>,
     <<"1", "m", "i", "n", " ", "1", "s">>,
     <<"1", "m", "i", "n", " ", "1", ".", "1", "2", "3", "s">>,
     <<"1", "m", "i", "n", " ", "2", ".", "1", "5", "s">>,
     <<"3", "4", "m", "i", "n", " ", "4", "6", ".", "2", "9", "2", "s">>,
     <<"2", " ", "m", "o", "n", "t", "h", "s", " ", "8", " ", "d", "a", "y",
       "s">>,
     <<"3", "4", "m", "i", "n", " ", "l", "e", "f", "t">>,
     <<"2", ".", "3", "4", "5", "s">>,
     <<"1", "y", " ", "2", "w", " ", "3", "d", " ", "4", "h">>,
     <<"1", " ", "d", "a", "y", " ", "4", "h", " ", "l", "e", "f", "t">>,
     <<"5", " ", "y", "e", "a", "r", "s", " ", "1", " ", "m", "o", "n", "t",
       "h">>,
     <<"1", ".", "5", "m", "s">>,
     <<"9", "9", "9", ".", "9", "9", "9", "s", " ", "1", "m", "s">>,
     <<"2", "4", "5", "u", "s", " ", "a", "g", "o">>,
     <<"1", ".", "2", ".", "3", "s">>,
     <<"n", "o", "w">>,
     <<>>,
     <<"n", "/", "a">>,
     <<"S", "a", "t", " ", "2", "0", "2", "0", "-", "0", "5", "-", "1", "6",
       " ", "1", "5", ":", "1", "1", ":", "1", "5", " ", "C", "E", "S", "T">>,
     <<"1", "h", "3", "0", "m", "i", "n">>,
     <<"4", " ", "w", "e", "e", "k", "s", " ", "2", " ", "d", "a", "y", "s",
       " ", "a", "g", "o">>}

\* What systemd-analyze writes to stdout (shortened).
AnalyzeNotFinished ==
    <<"B", "o", "o", "t", "u", "p", " ", "i", "s", " ", "n", "o", "t", " ",
       "y", "e", "t", " ", "f", "i", "n", "i", "s", "h", "e", "d", ".",
       NewLine>>

AnalyzeFinished12 ==
    <<"S", "t", "a", "r", "t", "u", "p", " ", "f", "i", "n", "i", "s", "h",
       "e", "d", " ", "i", "n", " ", "2", "s", " ", "(", "k", "e", "r", "n",
       "e", "l", ")", " ", "+", " ", "1", "0", "s", " ", "(", "u", "s", "e",
       "r", "s", "p", "a", "c", "e", ")", " ", "=", " ", "1", "2", "s",
       NewLine>>

AnalyzeReached60 ==
    <<"S", "t", "a", "r", "t", "u", "p", " ", "f", "i", "n", "i", "s", "h",
       "e", "d", " ", "i", "n", " ", "1", "s", " ", "+", " ", "1", "m", "i",
       "n", " ", "1", ".", "5", "s", " ", "=", " ", "1", "m", "i", "n", " ",
       "2", ".", "5", "s", NewLine, "x", ".", "t", "a", "r", "g", "e", "t",
       " ", "r", "e", "a", "c", "h", "e", "d", " ", "a", "f", "t", "e", "r",
       " ", "1", "m", "i", "n", " ", "0", ".", "0", "0", "1", "s", " ", "i",
       "n", " ", "u", "s", "e", "r", "s", "p", "a", "c", "e", NewLine>>

AnalyzeReached121 ==
    <<"x", ".", "t", "a", "r", "g", "e", "t", " ", "r", "e", "a", "c", "h",
       "e", "d", " ", "a", "f", "t", "e", "r", " ", "2", "m", "i", "n", " ",
       "1", "s", " ", "i", "n", " ", "u", "s", "e", "r", "s", "p", "a", "c",
       "e">>

AnalyzeMicroseconds ==
    <<"S", "t", "a", "r", "t", "u", "p", " ", "f", "i", "n", "i", "s", "h",
       "e", "d", " ", "i", "n", " ", "2", "4", "5", "u", "s", " ", "(", "u",
       "s", "e", "r", "s", "p", "a", "c", "e", ")", " ", "=", " ", "2", "4",
       "5", "u", "s", NewLine>>

(* Tables as systemctl prints them (shortened), and texts that are none. *)

\* a listing of units
TableUnits ==
    <<"U", "N", "I", "T", " ", "L", "O", "A", "D", " ", " ", " ", "A", "C",
       "T", "I", "V", "E", " ", "S", "U", "B", NewLine, "a", ".", "s", " ",
       " ", "l", "o", "a", "d", "e", "d", " ", "a", "c", "t", "i", "v", "e",
       " ", "r", "u", "n", "n", "i", "n", "g", NewLine>>

\* a listing of units with the column of the marks, and a footer
TableUnitsMarked ==
    <<" ", " ", "U", "N", "I", "T", " ", "L", "O", "A", "D", " ", " ", " ",
       "A", "C", "T", "I", "V", "E", " ", "S", "U", "B", NewLine, "*", " ",
       "b", ".", "t", " ", " ", "e", "r", "r", "o", "r", " ", " ", "f", "a",
       "i", "l", "e", "d", " ", "f", "a", "i", "l", "e", "d", NewLine, " ",
       " ", "a", ".", "s", " ", " ", "l", "o", "a", "d", "e", "d", " ", "a",
       "c", "t", "i", "v", "e", " ", "r", "u", "n", "n", "i", "n", "g",
       NewLine, NewLine, "2", " ", "u", "n", "i", "t", "s", ".", NewLine>>

\* a header that names two columns alike
TableTwice ==
    <<"A", " ", " ", "A", NewLine, "1", " ", " ", "2", NewLine>>

\* a header whose first column is UNITS
TableUnitsPlural ==
    <<"U", "N", "I", "T", "S", " ", "L", "O", "A", "D", NewLine, "a", ".",
       "s", " ", " ", " ", "l", "o", "a", "d", "e", "d", NewLine>>

\* a listing of timers, and a footer
TableTimers ==
    <<"N", "E", "X", "T", " ", "L", "E", "F", "T", " ", "L", "A", "S", "T",
       " ", "P", "A", "S", "S", "E", "D", " ", " ", " ", " ", "U", "N", "I",
       "T", NewLine, "n", "/", "a", " ", " ", "n", "/", "a", " ", " ", "n",
       "/", "a", " ", " ", "n", "/", "a", " ", " ", " ", " ", " ", " ", " ",
       "a", ".", "t", NewLine, "S", "a", "t", " ", " ", "1", "h", " ", " ",
       " ", "F", "r", "i", " ", " ", "4", "m", "i", "n", " ", "a", "g", "o",
       " ", " ", "b", ".", "t", NewLine, "S", "a", "t", " ", " ", "1", "h",
       " ", " ", " ", "n", "/", "a", " ", " ", "n", "/", "a", " ", " ", " ",
       " ", " ", " ", " ", "c", ".", "t", "i", "m", "e", "r", NewLine, "n",
       "/", "a", " ", " ", "n", "/", "a", " ", " ", "F", "r", "i", " ", " ",
       "1", "h", " ", "a", "g", "o", " ", " ", " ", " ", "d", ".", "t",
       NewLine, NewLine, "4", " ", "t", "i", "m", "e", "r", "s", " ", "l",
       "i", "s", "t", "e", "d", ".", NewLine>>

\* a blank line
TableBlank ==
    <<NewLine>>

\* a header of blanks
TableNoHeader ==
    <<" ", " ", NewLine, "x", " ", "y", NewLine>>

\* a row that ends before the last column
TableShortRow ==
    <<"U", "n", "i", "t", " ", "S", "u", "b", " ", " ", NewLine, "a", ".",
       "s", NewLine>>

\* a listing of timers, one of which ran 245 microseconds ago
TableTimersMicro ==
    <<"N", "E", "X", "T", " ", "P", "A", "S", "S", "E", "D", " ", " ", " ",
       " ", " ", "U", "N", "I", "T", NewLine, "n", "/", "a", " ", " ", "2",
       "4", "5", "u", "s", " ", "a", "g", "o", " ", " ", "a", ".", "t",
       NewLine>>

\* a listing of timers without the column PASSED
TableTimersNoPassed ==
    <<"N", "E", "X", "T", " ", "L", "E", "F", "T", " ", "U", "N", "I", "T",
       NewLine, "n", "/", "a", " ", " ", "n", "/", "a", " ", " ", "a", ".",
       "t", NewLine>>

\* a listing of timers whose last column is UNITS
TableTimersPlural ==
    <<"N", "E", "X", "T", " ", "P", "A", "S", "S", "E", "D", " ", "U", "N",
       "I", "T", "S", NewLine, "n", "/", "a", " ", " ", "n", "/", "a", " ",
       " ", " ", " ", "a", ".", "t", NewLine>>

TableSample ==
    {TableUnits, TableUnitsMarked, TableTwice, TableUnitsPlural, TableTimers,
     TableBlank, TableNoHeader, TableShortRow, TableTimersMicro,
     TableTimersNoPassed, TableTimersPlural}

\* The column names that get_all_units and get_all_timers expect, and others.
ColumnHeaderSample ==
    {<<ColumnUnit, ColumnActive, ColumnSub, ColumnLoad>>,
     <<ColumnUnit, ColumnNext, ColumnPassed>>,
     <<<<"U", "N", "I", "T">>>>,
     <<ColumnSub, ColumnUnit>>,
     <<>>}

\* How the command systemctl list-timers --all can end.
ListTimersSample ==
    {Process(TRUE, 0, <<>>, <<>>),
     Process(FALSE, 1, Encode(<<"e">>), <<>>),
     Process(FALSE, 0, <<>>, <<>>)}
    \cup {Process(FALSE, 0, <<>>, Encode(text)) :
            text \in {TableTimers, TableTimersMicro, TableTimersNoPassed,
                      TableTimersPlural, TableUnits}}

\* How the command systemd-analyze can end.
AnalyzeSample ==
    {Process(TRUE, 0, <<>>, <<>>),
     Process(FALSE, 1, Encode(AnalyzeNotFinished), <<>>),
     Process(FALSE, 0, Encode(<<"e">>), <<>>),
     Process(FALSE, 0, <<>>, <<>>),
     Process(FALSE, 0, <<>>, <<111, 255>>)}
    \cup {Process(FALSE, 0, <<>>, Encode(text)) :
            text \in {AnalyzeNotFinished, AnalyzeFinished12, AnalyzeReached60,
                      AnalyzeReached121, AnalyzeMicroseconds}}

\* Header rows: those of the tests of the repository, of the listings of
\* systemctl, a row of blanks, the empty row and a single word.
HeaderRowSample ==
    {<<"1", " ", " ", "2", " ", " ", "3">>,
     <<" ", " ", "1", " ", " ", "2", " ", " ", "3", " ", " ">>,
     <<" ", " ", "1", " ", "1", " ", " ", "2", " ", "2", " ", " ", "3",
       " ", "3", " ", " ">>,
     <<"a", " ", "b">>,
     <<"u", "n", "i", "t", " ", "l", "o", "a", "d", " ", " ", " ", "a",
       "c", "t", "i", "v", "e", " ", "s", "u", "b">>,
     <<" ", " ", "u", "n", "i", "t", " ", "l", "o", "a", "d", " ", " ",
       " ", "a", "c", "t", "i", "v", "e", " ", "s", "u", "b">>,
     <<"n", "e", "x", "t", " ", "l", "e", "f", "t", " ", "l", "a", "s",
       "t", " ", "p", "a", "s", "s", "e", "d", " ", " ", " ", " ", "u",
       "n", "i", "t">>,
     <<" ", " ", " ">>,
     <<>>,
     <<"x">>}

InitSource ==
    /\ opts = DefaultOpts
    /\ pc = "source"
    /\ cache = Cache_init
    /\ added = <<>>
    /\ ret = [op |-> "CliSource"]
    /\ host = NoHost
    /\ queries = <<>>
    /\ results = <<>>
    /\ perf = <<>>
    /\ verdict = "none"

\* CliSource.__execute_cli(args), the command ending as the process says
CallExecuteCli ==
    /\ pc = "source"
    /\ \E p \in ProcessSample :
        ret' = [op |-> "execute_cli", process |-> p, out |-> execute_cli(p)]
    /\ Returned
    /\ RunUnchanged

\* CliSource.__convert_to_sec(fmt_timespan)
CallConvertToSec ==
    /\ pc = "source"
    /\ \E text \in TimespanSample :
        \E out \in convert_to_sec(text) :
            ret' = [op |-> "convert_to_sec", fmt_timespan |-> text,
                    out |-> out, outcomes |-> convert_to_sec(text)]
    /\ Returned
    /\ RunUnchanged

\* source.get_startup_time()
CallGetStartupTime ==
    /\ pc = "source"
    /\ \E p \in AnalyzeSample \cup ProcessSample :
        \E out \in get_startup_time(p) :
            ret' = [op |-> "get_startup_time", process |-> p, out |-> out]
    /\ Returned
    /\ RunUnchanged

\* Table(stdout).check_header(column_header)
CallCheckHeader ==
    /\ pc = "source"
    /\ \E stdout \in TableSample, column_header \in ColumnHeaderSample :
        ret' = [op |-> "Table.check_header", stdout |-> stdout,
                column_header |-> column_header,
                out |-> Table_check_header(Table_init(stdout).value,
                                           column_header)]
    /\ Returned
    /\ RunUnchanged

\* Table(stdout).get_row(row_number), and the same once more
CallGetRow ==
    /\ pc = "source"
    /\ \E stdout \in TableSample :
        LET table == Table_init(stdout).value
        IN  \E row_number \in 0..(Table_row_count(table) - 1) :
                ret' = [op |-> "Table.get_row", stdout |-> stdout,
                        row_number |-> row_number, table |-> table,
                        out |-> Table_get_row(table, row_number),
                        again |-> Table_get_row(Table_init(stdout).value,
                                                row_number)]
    /\ Returned
    /\ RunUnchanged

\* Table.__detect_lengths(header_row)
CallDetectLengths ==
    /\ pc = "source"
    /\ \E header_row \in HeaderRowSample :
        ret' = [op |-> "Table.__detect_lengths", header_row |-> header_row,
                out |-> Table_detect_lengths(header_row)]
    /\ Returned
    /\ RunUnchanged

\* list(source.get_all_timers())
CallGetAllTimers ==
    /\ pc = "source"
    /\ \E p \in ListTimersSample :
        \E out \in get_all_timers(p) :
            ret' = [op |-> "get_all_timers", process |-> p, out |-> out]
    /\ Returned
    /\ RunUnchanged

NextSource ==
    \/ CallExecuteCli
    \/ CallGetStartupTime
    \/ CallConvertToSec
    \/ CallCheckHeader
    \/ CallGetRow
    \/ CallDetectLengths
    \/ CallGetAllTimers

SpecSource == InitSource /\ [][NextSource]_vars

-----------------------------------------------------------------------------
(* The run of main(). *)

RECURSIVE EscapeDots(_)
\* unit_name.replace(".", "\\.")
EscapeDots(s) ==
    IF s = <<>> THEN <<>>
    ELSE (IF Head(s) = "." THEN <<"\\", ".">> ELSE <<Head(s)>>)
         \o EscapeDots(Tail(s))

\* The unit types that SystemdUnitTypesList knows.
SystemdUnitTypes ==
    {<<"s", "e", "r", "v", "i", "c", "e">>, <<"s", "o", "c", "k", "e", "t">>,
     <<"t", "a", "r", "g", "e", "t">>, <<"d", "e", "v", "i", "c", "e">>,
     <<"m", "o", "u", "n", "t">>,
     <<"a", "u", "t", "o", "m", "o", "u", "n", "t">>,
     <<"t", "i", "m", "e", "r">>, <<"s", "w", "a", "p">>,
     <<"p", "a", "t", "h">>, <<"s", "l", "i", "c", "e">>,
     <<"s", "c", "o", "p", "e">>}

RECURSIVE str_join(_, _)
\* sep.join(texts)
str_join(sep, texts) ==
    IF texts = <<>> THEN <<>>
    ELSE IF Len(texts) = 1 THEN texts[1]
    ELSE texts[1] \o sep \o str_join(sep, Tail(texts))

\* SystemdUnitTypesList.convert_to_regexp
SystemdUnitTypesList_convert_to_regexp(unit_types) ==
    <<".", "*", "\\", ".", "(">> \o str_join(<<"|">>, unit_types)
        \o <<")", "$">>

\* a plausible bug: the unit names are taken as they are
convert_to_regexp_list_unescaped(regexp, unit_names, unit_types) ==
    IF \E k \in 1..Len(unit_types) : unit_types[k] \notin SystemdUnitTypes
    THEN Raises("ValueError")
    ELSE Returns(regexp \cup unit_names
                    \cup IF unit_types # <<>>
                         THEN {SystemdUnitTypesList_convert_to_regexp(
                                    unit_types)}
                         ELSE {})

\* convert_to_regexp_list: the regexes as they are, the unit names with
\* their dots escaped and, if unit types are given, the regex of the types;
\* SystemdUnitTypesList raises ValueError for a type it does not know
convert_to_regexp_list(regexp, unit_names, unit_types) ==
    IF \E k \in 1..Len(unit_types) : unit_types[k] \notin SystemdUnitTypes
    THEN Raises("ValueError")
    ELSE Returns(regexp \cup {EscapeDots(n) : n \in unit_names}
                    \cup IF unit_types # <<>>
                         THEN {SystemdUnitTypesList_convert_to_regexp(
                                    unit_types)}
                         ELSE {})

\* parse_args for the arguments --dbus and --cli, of which the parser
\* accepts at most one: each stores its constant, and without them
\* data_source has the default of --dbus, "cli"
parse_data_source(argv) ==
    IF argv = <<"--dbus">> THEN "dbus" ELSE DefaultOpts.data_source

\* normalize_argparser: the parsed arguments become the options; the
\* attributes include_type, exclude_type and exclude_unit are deleted (here:
\* empty)
normalize_argparser(args, is_gi) ==
    LET include == convert_to_regexp_list(args.include,
                        IF args.include_unit = None THEN {}
                        ELSE {Val(args.include_unit)}, args.include_type)
        exclude == convert_to_regexp_list(args.exclude, args.exclude_unit,
                                          args.exclude_type)
    IN  IF include.raised # "none" THEN include
        ELSE IF exclude.raised # "none" THEN exclude
        ELSE Returns([args EXCEPT !.data_source =
                                        IF @ = "dbus" /\ ~is_gi THEN "cli"
                                        ELSE @,
                                  !.include = include.value,
                                  !.exclude = exclude.value,
                                  !.include_type = <<>>,
                                  !.exclude_type = <<>>,
                                  !.exclude_unit = {}])

\* Source.get_all_units_cached: the units of the listing, added in order
RECURSIVE AddAll(_, _)
AddAll(c, rows) ==
    IF rows = <<>> THEN c
    ELSE AddAll(Cache_add(c, Head(rows).name, Head(rows)), Tail(rows))

get_all_units_cached(rows) == AddAll(Cache_init, rows)

\* a plausible bug: a startup time that equals a threshold exceeds it
StartupTimeContext_evaluate_at_least(value, o) ==
    IF o.scope_startup_time /\ AtLeast(value, o.critical) THEN Critical
    ELSE IF o.scope_startup_time /\ AtLeast(value, o.warning) THEN Warn
    ELSE Ok

\* StartupTimeContext: ScalarContext.evaluate against Range(critical) and
\* Range(warning), which are set only when the scope is enabled; a range
\* that is not set accepts every value from 0 on (a time is never below 0)
StartupTimeContext_evaluate(value, o) ==
    IF o.scope_startup_time /\ Above(value, o.critical) THEN Critical
    ELSE IF o.scope_startup_time /\ Above(value, o.warning) THEN Warn
    ELSE Ok

Result(context, name, state) ==
    [context |-> context, name |-> name, state |-> state]

\* The more significant of two states: the one with the higher code.
Worse(s, t) == IF StateCode(s) > StateCode(t) THEN s ELSE t

RECURSIVE MostSignificantState(_)
\* Results.most_significant_state; Check.state is Unknown without results
MostSignificantState(rs) ==
    IF rs = <<>> THEN Ok
    ELSE Worse(Head(rs).state, MostSignificantState(Tail(rs)))

CheckState(rs) == IF rs = <<>> THEN Unknown ELSE MostSignificantState(rs)

PerformanceSpecs ==
    << <<"active_state", ":", "failed">>,
       <<"active_state", ":", "active">>,
       <<"active_state", ":", "activating">>,
       <<"active_state", ":", "inactive">> >>

\* a plausible bug: units_active counts every unit that is loaded
PerformanceDataResource_probe_loaded(c, o) ==
    LET specs == [PerformanceSpecs EXCEPT ![2] =
                    <<"load_state", ":", "loaded">>]
        counter == Cache_count_by_states(c, specs, {}, o.exclude)
    IN  [i \in 1..4 |->
            Metric(<<"units_", Split(PerformanceSpecs[i], ":")[2][1]>>,
                   counter[specs[i]], "performance_data")]
        \o <<Metric(<<"count_units">>, Cache_count(c), "performance_data")>>

\* a plausible bug: the counters are taken over the whole cache
PerformanceDataResource_probe_all(c, o) ==
    LET counter == Cache_count_by_states(c, PerformanceSpecs, {}, {})
    IN  [i \in 1..4 |->
            Metric(<<"units_", Split(PerformanceSpecs[i], ":")[2][1]>>,
                   counter[PerformanceSpecs[i]], "performance_data")]
        \o <<Metric(<<"count_units">>, Cache_count(c), "performance_data")>>

\* a plausible bug: count_units is taken over the units not excluded
PerformanceDataResource_probe_count_kept(c, o) ==
    LET counter == Cache_count_by_states(c, PerformanceSpecs, {}, o.exclude)
        kept == CHOOSE out \in Cache_filter(c, {}, o.exclude) : TRUE
    IN  [i \in 1..4 |->
            Metric(<<"units_", Split(PerformanceSpecs[i], ":")[2][1]>>,
                   counter[PerformanceSpecs[i]], "performance_data")]
        \o <<Metric(<<"count_units">>, Len(kept), "performance_data")>>

\* PerformanceDataResource.probe: the metrics, in the order of the specs
PerformanceDataResource_probe(c, o) ==
    LET counter == Cache_count_by_states(c, PerformanceSpecs, {}, o.exclude)
    IN  [i \in 1..4 |->
            Metric(<<"units_", Split(PerformanceSpecs[i], ":")[2][1]>>,
                   counter[PerformanceSpecs[i]], "performance_data")]
        \o <<Metric(<<"count_units">>, Cache_count(c), "performance_data")>>

\* a plausible bug: no unit to test is not an error
UnitsResource_probe_silent(c, o) ==
    {[metrics |-> out, raised |-> FALSE] :
        out \in Cache_filter(c, o.include, o.exclude)}

\* UnitsResource.probe: the units it yields, in one of the orders of the
\* filter, and whether it raises the ValueError after them
UnitsResource_probe(c, o) ==
    {[metrics |-> out, raised |-> Len(out) = 0] :
        out \in Cache_filter(c, o.include, o.exclude)}

ZeroResult == "ValueError: No units have been added for testing."

(* Scenario "run": one run of main() against one host. *)

RunArgs ==
    {[DefaultOpts EXCEPT !.include_unit = u, !.exclude = e,
                         !.ignore_inactive_state = i, !.scope_timers = t,
                         !.scope_startup_time = st, !.performance_data = p] :
        u \in {None, Some(NameAS)}, e \in {{}, {RegexB}},
        i \in BOOLEAN, t \in BOOLEAN, st \in BOOLEAN, p \in BOOLEAN}

RunUnits ==
    {Unit(n, a, "running", "loaded") :
        n \in {NameAS, NameBT}, a \in {"active", "failed"}}

\* The listings of systemctl name each unit at most once.
DistinctNames(S, n) ==
    {rows \in SeqsUpTo(S, n) :
        \A i, j \in 1..Len(rows) : rows[i].name = rows[j].name => i = j}

\* What "systemctl list-units --all" can answer: a failure, or a listing.
ListUnitsAnswers ==
    {Error} \cup {Rows(rows) : rows \in DistinctNames(RunUnits, MaxUnits)}

\* What "systemctl show ... name" can answer: a failure, or the properties
\* of a unit, whose Id is the name asked for or another name.
ShowAnswers(name) ==
    {Error} \cup
    {Rows(<<u>>) : u \in {Unit(name, "inactive", "dead", "not-found"),
                          Unit(name, "failed", "failed", "loaded"),
                          Unit(NameBT, "inactive", "dead", "loaded")}}

\* What systemd-analyze answers in a run: the boot is not finished, or it
\* is, after a time that the parser may not know to read.
RunAnalyzeSample ==
    {Process(FALSE, 1, Encode(AnalyzeNotFinished), <<>>)}
    \cup {Process(FALSE, 0, <<>>, Encode(text)) :
            text \in {AnalyzeFinished12, AnalyzeReached60, AnalyzeReached121,
                      AnalyzeMicroseconds}}

RunTimers ==
    {Timer(NameBT, None, None),
     Timer(NameAT, None, None),
     Timer(NameAT, None, Some(Seconds(TimersWarningDefault, 0))),
     Timer(NameAT, Some(Seconds(0, 0)), Some(Seconds(TimersCriticalDefault, 0)))}

ListTimersAnswers ==
    {Error} \cup {Rows(rows) : rows \in DistinctNames(RunTimers, MaxTimers)}

InitRun ==
    /\ opts \in {normalize_argparser(a, NoHost.is_gi).value : a \in RunArgs}
    /\ pc = "main"
    /\ cache = Cache_init
    /\ added = <<>>
    /\ ret = [op |-> "main", raised |-> "none"]
    /\ host = NoHost
    /\ queries = <<>>
    /\ results = <<>>
    /\ perf = <<>>
    /\ verdict = "none"

\* An exception leaves main: the guard of the check reports Unknown.
Raise(e) ==
    /\ pc' = "done"
    /\ verdict' = Unknown
    /\ ret' = [op |-> "main", raised |-> e]

\* a plausible bug: the timers are a task whether or not their scope is on
AfterStartupTime_timers_always(o) == "timers"

\* a plausible bug: the boot analysis is asked for until it gives a time
AfterStartupTime_again(o) ==
    IF results # <<>> /\ results[Len(results)].context # "startup_time"
    THEN "startup_time"
    ELSE IF o.scope_timers THEN "timers"
    ELSE IF o.performance_data THEN "performance_data"
    ELSE "summary"

\* The resource after the startup time, of the tasks main assembles.
AfterStartupTime(o) ==
    IF o.scope_timers THEN "timers"
    ELSE IF o.performance_data THEN "performance_data"
    ELSE "summary"

\* a plausible bug: the bus is used whenever its library is there
main_source_when_available(is_gi, o) ==
    IF is_gi \/ o.data_source = "dbus" THEN "DbusSource" ELSE "CliSource"

\* main: the class of the source
main_source(is_gi, o) ==
    IF is_gi /\ o.data_source = "dbus" THEN "DbusSource" ELSE "CliSource"

\* The query by which a source lists the units: CliSource runs "systemctl
\* list-units", DbusSource calls ListUnits of the manager object on the bus.
ListUnitsQuery(source) ==
    IF source = "DbusSource" THEN "ListUnits" ELSE "list-units"

\* The exception of a unit listing that fails: the one of the command
\* line source, or an error of the bus client library.
ListUnitsError(source, answer) ==
    IF source = "DbusSource" THEN "GLib.Error" ELSE answer.raised

\* a plausible bug: the unit of --unit is not asked for
AfterGetAllUnits_no_unit(o) == "units"

\* main after the listing: if opts.include_unit is not None, get_unit
AfterGetAllUnits(o) ==
    IF o.include_unit # None THEN "get_unit" ELSE "units"

\* source = DbusSource() or CliSource();
\* units = source.get_all_units_cached(...)
GetAllUnitsCached(answers) ==
    /\ pc = "main"
    /\ queries' = Append(queries,
                        ListUnitsQuery(main_source(host.is_gi, opts)))
    /\ \E answer \in answers :
        /\ host' = [host EXCEPT !.list_units = Some(answer)]
        /\ cache' = get_all_units_cached(answer.rows)
        /\ added' = answer.rows
        /\ IF answer.kind = "error"
           THEN Raise(ListUnitsError(main_source(host.is_gi, opts), answer))
           ELSE /\ pc' = AfterGetAllUnits(opts)
                /\ UNCHANGED <<ret, verdict>>
    /\ UNCHANGED <<opts, results, perf>>

\* a plausible bug: the unit is added under the name that was asked for
main_add_unit_as_asked(c, unit, o) == Cache_add(c, Val(o.include_unit), unit)

\* main: units.add(unit.name, unit)
main_add_unit(c, unit, o) == Cache_add(c, unit.name, unit)

\* unit = source.get_unit(opts.include_unit); units.add(unit.name, unit)
GetUnit(answers) ==
    /\ pc = "get_unit"
    /\ queries' = Append(queries, "show")
    /\ \E answer \in answers :
        /\ host' = [host EXCEPT !.show = Some(answer)]
        /\ IF answer.kind = "error"
           THEN Raise(answer.raised) /\ UNCHANGED <<cache, added>>
           ELSE LET unit == answer.rows[1]
                IN  /\ cache' = main_add_unit(cache, unit, opts)
                    /\ added' = Append(added, unit)
                    /\ pc' = "units"
                    /\ UNCHANGED <<ret, verdict>>
    /\ UNCHANGED <<opts, results, perf>>

\* UnitsResource.probe, each metric evaluated by UnitsContext
ProbeUnits ==
    /\ pc = "units"
    /\ \E probe \in UnitsResource_probe(cache, opts) :
        LET out == probe.metrics
        IN  /\ results' = results \o
                    [i \in 1..Len(out) |->
                        Result("units", out[i].name,
                               UnitsContext_evaluate(out[i], opts))]
            /\ IF probe.raised
               THEN Raise(ZeroResult)
               ELSE pc' = "startup_time" /\ UNCHANGED <<ret, verdict>>
    /\ UNCHANGED <<opts, cache, added, host, queries, perf>>

\* StartupTimeResource.probe, the metric evaluated by StartupTimeContext;
\* an exception of get_startup_time leaves main
ProbeStartupTime(sample) ==
    /\ pc = "startup_time"
    /\ queries' = Append(queries, "analyze")
    /\ \E p \in sample :
        \E out \in get_startup_time(p) :
            /\ host' = [host EXCEPT
                            !.analyze = Some([process |-> p, out |-> out])]
            /\ IF out.raised # "none"
               THEN Raise(out.raised) /\ UNCHANGED <<results, perf>>
               ELSE LET startup_time == out.value
                    IN  /\ IF startup_time # None /\ ~IsZero(Val(startup_time))
                           THEN /\ results' = Append(results,
                                    Result("startup_time", <<"startup_time">>,
                                        StartupTimeContext_evaluate(
                                            Val(startup_time), opts)))
                                /\ perf' =
                                    IF opts.performance_data
                                    THEN Append(perf,
                                            [name |-> <<"startup_time">>,
                                             value |-> Val(startup_time)])
                                    ELSE perf
                           ELSE UNCHANGED <<results, perf>>
                        /\ pc' = AfterStartupTime(opts)
                        /\ UNCHANGED <<ret, verdict>>
    /\ UNCHANGED <<opts, cache, added>>

\* TimersResource.probe, each metric evaluated by TimersContext; the check
\* turns a CheckError of the listing into an Unknown result, and any other
\* exception leaves main
ProbeTimers(answers) ==
    /\ pc = "timers"
    /\ queries' = Append(queries, "list-timers")
    /\ \E answer \in answers :
        /\ host' = [host EXCEPT !.list_timers = Some(answer)]
        /\ LET metrics == TimersResource_probe(answer.rows, opts)
               evaluated == results \o [i \in 1..Len(metrics) |->
                                Result("timers", metrics[i].name,
                                       metrics[i].value)]
           IN  IF answer.kind = "error" /\ answer.raised # "CheckError"
               THEN results' = evaluated /\ Raise(answer.raised)
               ELSE /\ results' =
                        IF answer.kind = "error"
                        THEN Append(evaluated,
                                    Result("timers", <<>>, Unknown))
                        ELSE evaluated
                    /\ pc' = IF opts.performance_data
                             THEN "performance_data" ELSE "summary"
                    /\ UNCHANGED <<ret, verdict>>
    /\ UNCHANGED <<opts, cache, added, perf>>

\* PerformanceDataResource.probe; PerformanceDataContext gives every metric
\* an Ok result and its performance data
ProbePerformanceData ==
    /\ pc = "performance_data"
    /\ LET metrics == PerformanceDataResource_probe(cache, opts)
       IN  /\ results' = results \o
                [i \in 1..Len(metrics) |->
                    Result("performance_data", metrics[i].name, Ok)]
           /\ perf' = perf \o
                [i \in 1..Len(metrics) |->
                    [name |-> metrics[i].name, value |-> metrics[i].value]]
    /\ pc' = "summary"
    /\ UNCHANGED <<opts, cache, added, ret, host, queries, verdict>>

\* check.main: the state of the check is the most significant result
Summarise ==
    /\ pc = "summary"
    /\ verdict' = CheckState(results)
    /\ pc' = "done"
    /\ UNCHANGED <<opts, cache, added, ret, host, queries, results, perf>>

NextRun ==
    \/ GetAllUnitsCached(ListUnitsAnswers)
    \/ GetUnit(ShowAnswers(Val(opts.include_unit)))
    \/ ProbeUnits
    \/ ProbeStartupTime(RunAnalyzeSample)
    \/ ProbeTimers(ListTimersAnswers)
    \/ ProbePerformanceData
    \/ Summarise

Spec == InitRun /\ [][NextRun]_vars

(* Scenario "startup": the runs that differ in what systemd-analyze answers *)
(* and in the thresholds of the startup time.                               *)

\* --warning and --critical: the defaults, and a pair that two of the
\* startup times of AnalyzeSample meet.
ThresholdPairs == {<<WarningDefault, CriticalDefault>>, <<12, WarningDefault>>}

StartupArgs ==
    {[DefaultOpts EXCEPT !.include_unit = u, !.scope_timers = t,
                         !.scope_startup_time = st, !.performance_data = p,
                         !.warning = wc[1], !.critical = wc[2]] :
        u \in {None, Some(NameAS)}, t \in BOOLEAN, st \in BOOLEAN,
        p \in BOOLEAN, wc \in ThresholdPairs}

InitStartup ==
    /\ opts \in {normalize_argparser(a, NoHost.is_gi).value : a \in StartupArgs}
    /\ pc = "main"
    /\ cache = Cache_init
    /\ added = <<>>
    /\ ret = [op |-> "main", raised |-> "none"]
    /\ host = NoHost
    /\ queries = <<>>
    /\ results = <<>>
    /\ perf = <<>>
    /\ verdict = "none"

NextStartup ==
    \/ GetAllUnitsCached(ListUnitsAnswers)
    \/ GetUnit(ShowAnswers(Val(opts.include_unit)))
    \/ ProbeUnits
    \/ ProbeStartupTime(AnalyzeSample)
    \/ ProbeTimers(ListTimersAnswers)
    \/ ProbePerformanceData
    \/ Summarise

SpecStartup == InitStartup /\ [][NextStartup]_vars

(* Scenario "backend": the runs that differ in the data source asked for    *)
(* and in whether the bus client library is there.                          *)

\* The command lines: --dbus, --cli, or neither.
DataSourceArgv == {<<>>, <<"--dbus">>, <<"--cli">>}

BackendArgs(argv) ==
    {[DefaultOpts EXCEPT !.data_source = parse_data_source(argv),
                         !.include_unit = u, !.scope_timers = TRUE] :
        u \in {None, Some(NameAS)}}

InitBackend ==
    /\ \E argv \in DataSourceArgv, is_gi \in BOOLEAN :
        /\ host = [NoHost EXCEPT !.is_gi = is_gi, !.argv = argv]
        /\ opts \in {normalize_argparser(a, is_gi).value :
                        a \in BackendArgs(argv)}
    /\ pc = "main"
    /\ cache = Cache_init
    /\ added = <<>>
    /\ ret = [op |-> "main", raised |-> "none"]
    /\ queries = <<>>
    /\ results = <<>>
    /\ perf = <<>>
    /\ verdict = "none"

SpecBackend == InitBackend /\ [][NextRun]_vars

(* Scenario "acquisition": the runs against the commands of systemctl, as   *)
(* they can end.                                                            *)

\* a listing of units, the second in a state that is none of the literals
TableUnitsMaintenance ==
    <<"U", "N", "I", "T", " ", "L", "O", "A", "D", " ", " ", " ", "A", "C",
       "T", "I", "V", "E", " ", " ", " ", " ", " ", " ", "S", "U", "B",
       NewLine, "a", ".", "s", " ", " ", "l", "o", "a", "d", "e", "d", " ",
       "a", "c", "t", "i", "v", "e", " ", " ", " ", " ", " ", " ", "r", "u",
       "n", "n", "i", "n", "g", NewLine, "b", ".", "t", " ", " ", "l", "o",
       "a", "d", "e", "d", " ", "m", "a", "i", "n", "t", "e", "n", "a", "n",
       "c", "e", " ", "r", "u", "n", "n", "i", "n", "g", NewLine>>

\* the properties of a unit that is inactive
ShowInactive ==
    <<"I", "d", "=", "a", ".", "s", NewLine, "A", "c", "t", "i", "v", "e",
       "S", "t", "a", "t", "e", "=", "i", "n", "a", "c", "t", "i", "v", "e",
       NewLine, "S", "u", "b", "S", "t", "a", "t", "e", "=", "d", "e", "a",
       "d", NewLine, "L", "o", "a", "d", "S", "t", "a", "t", "e", "=", "l",
       "o", "a", "d", "e", "d", NewLine>>

\* the properties of a unit with another name
ShowOtherId ==
    <<"I", "d", "=", "b", ".", "t", NewLine, "A", "c", "t", "i", "v", "e",
       "S", "t", "a", "t", "e", "=", "f", "a", "i", "l", "e", "d", NewLine,
       "S", "u", "b", "S", "t", "a", "t", "e", "=", "f", "a", "i", "l", "e",
       "d", NewLine, "L", "o", "a", "d", "S", "t", "a", "t", "e", "=", "l",
       "o", "a", "d", "e", "d", NewLine>>

\* the properties of a unit in a state that is none of the literals
ShowMaintenance ==
    <<"I", "d", "=", "a", ".", "s", NewLine, "A", "c", "t", "i", "v", "e",
       "S", "t", "a", "t", "e", "=", "m", "a", "i", "n", "t", "e", "n", "a",
       "n", "c", "e", NewLine, "S", "u", "b", "S", "t", "a", "t", "e", "=",
       "d", "e", "a", "d", NewLine, "L", "o", "a", "d", "S", "t", "a", "t",
       "e", "=", "l", "o", "a", "d", "e", "d", NewLine>>

\* the properties without the load state
ShowNoLoadState ==
    <<"I", "d", "=", "a", ".", "s", NewLine, "A", "c", "t", "i", "v", "e",
       "S", "t", "a", "t", "e", "=", "a", "c", "t", "i", "v", "e", NewLine,
       "S", "u", "b", "S", "t", "a", "t", "e", "=", "r", "u", "n", "n", "i",
       "n", "g", NewLine>>

\* a line that is no property
ShowNoEqualSign ==
    <<"I", "d", "=", "a", ".", "s", NewLine, "n", "o", "t", " ", "f", "o",
       "u", "n", "d", NewLine>>

\* How a command can fail to run: it does not start, it ends with a return
\* code that is not 0, or it writes to stderr.
FailingProcesses(stdout) ==
    {Process(TRUE, 0, <<>>, <<>>),
     Process(FALSE, 1, <<>>, Encode(stdout)),
     Process(FALSE, 0, Encode(<<"e">>), Encode(stdout))}

Succeeding(texts) ==
    {Process(FALSE, 0, <<>>, Encode(text)) : text \in texts}

\* an answer, with the process it comes from
From(p, answer) ==
    [f \in DOMAIN answer \cup {"process"} |->
        IF f = "process" THEN p ELSE answer[f]]

\* How systemctl list-units --all can end, and what get_all_units makes of
\* it.
AcquiredUnits ==
    {From(p, get_all_units(p)) :
        p \in FailingProcesses(TableUnits)
              \cup Succeeding({<<>>, TableUnits, TableUnitsMarked,
                               TableUnitsMaintenance, TableUnitsPlural,
                               TableTimers})}

\* How systemctl show can end, and what get_unit makes of it.
AcquiredUnit ==
    {From(p, get_unit(p)) :
        p \in FailingProcesses(ShowInactive)
              \cup Succeeding({<<>>, ShowInactive, ShowOtherId,
                               ShowMaintenance, ShowNoLoadState,
                               ShowNoEqualSign})}

\* How systemctl list-timers --all can end, and what get_all_timers makes
\* of it; the timers it yields before an exception are not kept.
AcquiredTimers ==
    UNION {{From(p, IF out.raised # "none" THEN Failed(out.raised, <<>>)
                    ELSE Rows(out.value)) : out \in get_all_timers(p)} :
            p \in FailingProcesses(TableTimers)
                  \cup Succeeding({<<>>, TableTimers, TableTimersNoPassed,
                                   TableTimersPlural, TableTimersMicro})}

\* How systemd-analyze can end in these runs.
AcquisitionAnalyzeSample ==
    FailingProcesses(AnalyzeFinished12) \cup Succeeding({AnalyzeFinished12})

AcquisitionArgs ==
    {[DefaultOpts EXCEPT !.include_unit = u, !.scope_timers = t,
                         !.performance_data = p] :
        u \in {None, Some(NameAS)}, t \in BOOLEAN, p \in BOOLEAN}

InitAcquisition ==
    /\ opts \in {normalize_argparser(a, NoHost.is_gi).value :
                    a \in AcquisitionArgs}
    /\ pc = "main"
    /\ cache = Cache_init
    /\ added = <<>>
    /\ ret = [op |-> "main", raised |-> "none"]
    /\ host = NoHost
    /\ queries = <<>>
    /\ results = <<>>
    /\ perf = <<>>
    /\ verdict = "none"

NextAcquisition ==
    \/ GetAllUnitsCached(AcquiredUnits)
    \/ GetUnit(AcquiredUnit)
    \/ ProbeUnits
    \/ ProbeStartupTime(AcquisitionAnalyzeSample)
    \/ ProbeTimers(AcquiredTimers)
    \/ ProbePerformanceData
    \/ Summarise

SpecAcquisition == InitAcquisition /\ [][NextAcquisition]_vars

(* Scenario "exclude": one probe of a timer listing under the options that  *)
(* the arguments -i, -e, --exclude-unit and --exclude-type become.          *)

TypeService == <<"s", "e", "r", "v", "i", "c", "e">>
TypeTimer == <<"t", "i", "m", "e", "r">>

ExcludeScenarioArgs ==
    {[DefaultOpts EXCEPT !.scope_timers = TRUE, !.include = i, !.exclude = e,
                         !.exclude_unit = u, !.exclude_type = t] :
        i \in {{}, {RegexB}}, e \in {{}, {RegexB}}, u \in {{}, {NameAT}},
        t \in {<<>>, <<TypeTimer>>, <<TypeService, TypeTimer>>}}

InitExclude ==
    /\ opts \in {normalize_argparser(a, NoHost.is_gi).value : a \in ExcludeScenarioArgs}
    /\ pc = "timers"
    /\ cache = Cache_init
    /\ added = <<>>
    /\ ret = [op |-> "TimersResource"]
    /\ host = NoHost
    /\ queries = <<>>
    /\ results = <<>>
    /\ perf = <<>>
    /\ verdict = "none"

SpecExclude == InitExclude /\ [][NextTimers]_vars

(* Scenario "arguments": one call of convert_to_regexp_list.                *)

\* The number of unit types of one call.
MaxTypes == 2

\* a text that is no unit type of systemd
TypeServices == <<"s", "e", "r", "v", "i", "c", "e", "s">>

InitArguments ==
    /\ opts = DefaultOpts
    /\ pc = "arguments"
    /\ cache = Cache_init
    /\ added = <<>>
    /\ ret = [op |-> "get_argparser"]
    /\ host = NoHost
    /\ queries = <<>>
    /\ results = <<>>
    /\ perf = <<>>
    /\ verdict = "none"

CallConvertToRegexpList ==
    /\ pc = "arguments"
    /\ \E regexp \in SUBSET {RegexB, RegexASEnd},
          unit_names \in SUBSET {NameAS, NameBT},
          unit_types \in SeqsUpTo({TypeService, TypeTimer, TypeServices},
                                  MaxTypes) :
        ret' = [op |-> "convert_to_regexp_list", regexp |-> regexp,
                unit_names |-> unit_names, unit_types |-> unit_types,
                out |-> convert_to_regexp_list(regexp, unit_names,
                                               unit_types)]
    /\ pc' = "returned"
    /\ UNCHANGED <<opts, cache, added, host, queries, results, perf, verdict>>

NextArguments == CallConvertToRegexpList

SpecArguments == InitArguments /\ [][NextArguments]_vars

-----------------------------------------------------------------------------
(* What the claims about the cache refer to. *)

\* The names of the add calls so far.
AddedNames == {added[i].name : i \in 1..Len(added)}

\* The unit of the most recent add call for name n.
LastAdded(n) ==
    added[CHOOSE i \in 1..Len(added) :
            /\ added[i].name = n
            /\ \A k \in (i + 1)..Len(added) : added[k].name # n]

\* The position of the first add call for name n.
FirstAdd(n) ==
    CHOOSE i \in 1..Len(added) :
        /\ added[i].name = n
        /\ \A k \in 1..(i - 1) : added[k].name # n

RefAccepts(r, i, c) ==
    \/ r[i] = "\\" /\ c = r[i + 1]
    \/ r[i] = "."
    \/ r[i] \notin {"\\", "."} /\ c = r[i]

RECURSIVE EndsFrom(_, _, _, _)
\* The lengths k such that the part of regex r from position i on can match
\* the text s from one of the positions J up to its k-th character: the
\* meaning of a regular expression as a set of texts, computed on sets of
\* positions.
EndsFrom(r, i, s, J) ==
    IF i > Len(r) THEN J
    ELSE IF r[i] = "$" THEN EndsFrom(r, i + 1, s, J \cap {Len(s)})
    ELSE LET w == IF r[i] = "\\" THEN 2 ELSE 1
             starred == i + w <= Len(r) /\ r[i + w] = "*"
         IN  IF starred
             THEN EndsFrom(r, i + w + 1, s,
                    {k \in 0..Len(s) :
                        \E j \in J : /\ j <= k
                                     /\ \A m \in (j + 1)..k :
                                            RefAccepts(r, i, s[m])})
             ELSE EndsFrom(r, i + w, s,
                    {j + 1 : j \in {k \in J : /\ k < Len(s)
                                               /\ RefAccepts(r, i, s[k + 1])}})

\* Some prefix of the name (from position 0, up to any position) is a text
\* of the regular expression.
MatchesFromStart(regex, name) == EndsFrom(regex, 1, name, {0}) # {}

\* The name passes the include patterns (if any) and survives the exclude
\* patterns (if any).
Passes(name, include, exclude) ==
    /\ include = {} \/ \E r \in include : MatchesFromStart(r, name)
    /\ exclude = {} \/ ~\E r \in exclude : MatchesFromStart(r, name)

\* The names of a sequence of names or of units.
OutNames(out, ofUnits) ==
    {IF ofUnits THEN out[i].name ELSE out[i] : i \in 1..Len(out)}

\* C6: NameFilter.filter yields a registered name if and only if it passes
\* the include patterns (none given, or one matches from position 0, not
\* necessarily up to the end) and survives the exclude patterns (none given,
\* or none matches from position 0); a name that matches both is not
\* yielded; every registered name is yielded at most once.
C6_FilterYieldsIffPasses ==
    ret.op = "NameFilter.filter" =>
        /\ \A n \in cache.unit_names :
              (n \in ToSet(ret.out)) <=> Passes(n, ret.include, ret.exclude)
        /\ ToSet(ret.out) \subseteq cache.unit_names
        /\ IsInjective(ret.out)

\* a.s matches an include and an exclude pattern and is dropped, b.t matches
\* no include pattern, a.sx is yielded although a\.s matches only its prefix
C6_Witness ==
    /\ ret.op = "NameFilter.filter"
    /\ ret.include = {RegexAS}
    /\ ret.exclude = {RegexB, RegexASEnd}
    /\ cache.unit_names = {NameAS, NameASX, NameBT}
    /\ ret.out = <<NameASX>>

\* C7 as stated: the names (the units) are yielded in the order of their
\* first registration.
C7_InsertionOrder ==
    ret.op \in {"NameFilter.filter", "Cache.filter"} =>
        \A i, j \in 1..Len(ret.out) :
            LET name(k) == IF ret.op = "Cache.filter" THEN ret.out[k].name
                           ELSE ret.out[k]
            IN  i < j => FirstAdd(name(i)) < FirstAdd(name(j))

\* C7 as amended: whatever the order of the add calls, the filter yields
\* every name added that passes the patterns exactly once (and Cache.filter
\* the unit stored for it); the order of the add calls determines the set
\* that is yielded through the names alone, not the order of the output.
C7_YieldsEachPassingNameOnce ==
    ret.op \in {"NameFilter.filter", "Cache.filter"} =>
        /\ OutNames(ret.out, ret.op = "Cache.filter")
              = {n \in AddedNames : Passes(n, ret.include, ret.exclude)}
        /\ Len(ret.out)
              = Cardinality(OutNames(ret.out, ret.op = "Cache.filter"))
        /\ ret.op = "Cache.filter" =>
              \A i \in 1..Len(ret.out) :
                  ret.out[i] = LastAdded(ret.out[i].name)

\* a.s was added before b.t and the filter yields b.t before a.s
C7_Witness ==
    /\ ret.op = "Cache.filter"
    /\ Len(added) = 2
    /\ added[1].name = NameAS
    /\ added[2].name = NameBT
    /\ Len(ret.out) = 2
    /\ ret.out[1].name = NameBT
    /\ ret.out[2].name = NameAS

\* C8: after any sequence of add calls, count is the number of distinct
\* names added and get(name) is the unit of the most recent add for the
\* name; the cache that get_all_units_cached builds from a listing holds,
\* for each name of the listing, the last record listed under it.
C8_KeysUniqueLastAddWins ==
    /\ DOMAIN cache.units = AddedNames
    /\ \A n \in AddedNames : cache.units[n] = LastAdded(n)
    /\ ret.op = "count" => ret.out = Cardinality(AddedNames)
    /\ ret.op = "get" /\ ret.name \in AddedNames =>
          ret.out = LastAdded(ret.name)

\* a.s was added twice, with different units; get returns the second one
C8_Witness ==
    /\ ret.op = "get"
    /\ ret.name = NameAS
    /\ Len(added) = 3
    /\ added[1].name = NameAS
    /\ added[3].name = NameAS
    /\ added[1] # added[3]
    /\ ret.out = added[3]
    /\ Cache_count(cache) = 2

\* C9: count_by_states returns one entry per given spec, and the entry of
\* spec "property:value" is the number of stored units that pass the filter
\* and whose property has that value: each spec is counted on its own, a
\* spec no unit matches has 0, a unit is counted under every spec it
\* matches.
C9_CountByStates ==
    ret.op = "count_by_states" =>
        /\ DOMAIN ret.out = ToSet(ret.states)
        /\ \A i \in 1..Len(ret.states) :
              LET spec == ret.states[i]
                  property == spec[1]
                  value == spec[3]
                  Attr(u) == CASE property = "active_state" -> u.active_state
                               [] property = "load_state" -> u.load_state
                               [] property = "sub_state" -> u.sub_state
              IN  ret.out[spec] =
                    Cardinality({n \in AddedNames :
                        /\ Passes(n, ret.include, ret.exclude)
                        /\ Attr(LastAdded(n)) = value})

\* three specs: one that no unit matches, and two that both count a.s
C9_Witness ==
    /\ ret.op = "count_by_states"
    /\ ret.states = <<SpecInactive, SpecActive, SpecLoaded>>
    /\ ret.include = {}
    /\ ret.exclude = {RegexX}
    /\ Len(added) = 3
    /\ ret.out[SpecInactive] = 0
    /\ ret.out[SpecActive] = 1
    /\ ret.out[SpecLoaded] = 2

\* The spellings of an active state that lower-case to it.
Spellings(a) ==
    CASE a = "active" -> {"active", "ACTIVE", "Active"}
      [] a = "failed" -> {"failed", "FAILED"}
      [] a = "inactive" -> {"inactive", "Inactive"}
      [] OTHER -> {a}

\* C1: convert_to_exitcode is Critical when a required state is configured
\* and, lower-cased, differs from the active state of the unit; otherwise
\* Critical when the load state is error or the active state is failed;
\* otherwise Ok; never Warning or Unknown.
C1_ConvertToExitcode ==
    ret.op = "convert_to_exitcode" =>
        LET u == ret.unit
            differs == /\ opts.expected_state # None
                       /\ Val(opts.expected_state) \notin Spellings(u.active_state)
        IN  /\ differs => ret.out = Critical
            /\ ~differs /\ (u.load_state = "error" \/ u.active_state = "failed")
                  => ret.out = Critical
            /\ ~differs /\ u.load_state # "error" /\ u.active_state # "failed"
                  => ret.out = Ok
            /\ ret.out \in {Ok, Critical}

\* the required state is met in another spelling, and the load state alone
\* makes the unit Critical
C1_Witness ==
    /\ ret.op = "convert_to_exitcode"
    /\ opts.expected_state = Some("ACTIVE")
    /\ ret.unit.active_state = "active"
    /\ ret.unit.load_state = "error"
    /\ ret.out = Critical

\* The timers of a listing that match no exclude pattern, in order.
\* The thousandths of seconds of a time that is present.
Millis(t) == Val(t).s * 1000 + Val(t).ms

RECURSIVE NotExcluded(_, _)
NotExcluded(timers, exclude) ==
    IF timers = <<>> THEN <<>>
    ELSE (IF Passes(Head(timers).name, {}, exclude) THEN <<Head(timers)>>
          ELSE <<>>) \o NotExcluded(Tail(timers), exclude)

\* C2: for every evaluated timer and every pair of thresholds the probe
\* assigns Ok when next is present; Critical when next and passed are
\* absent; Critical when next is absent and passed >= critical; Warning
\* when next is absent and warning <= passed < critical; Ok otherwise.
C2_TimerStates ==
    ret.op = "TimersResource.probe" =>
        LET evaluated == NotExcluded(ret.timers, opts.exclude)
        IN  /\ Len(ret.out) = Len(evaluated)
            /\ \A i \in 1..Len(evaluated) :
                  LET t == evaluated[i]
                      state == ret.out[i].value
                      dead == t.next = None
                      p == t.passed
                  IN  /\ ret.out[i].name = t.name
                      /\ ~dead => state = Ok
                      /\ dead /\ p = None => state = Critical
                      /\ dead /\ p # None /\ Millis(p) >= opts.timers_critical * 1000
                            => state = Critical
                      /\ dead /\ p # None /\ Millis(p) >= opts.timers_warning * 1000
                              /\ Millis(p) < opts.timers_critical * 1000
                            => state = Warn
                      /\ dead /\ p # None /\ Millis(p) < opts.timers_warning * 1000
                              /\ Millis(p) < opts.timers_critical * 1000
                            => state = Ok

\* a dead timer whose passed time is exactly the warning threshold
C2_Witness ==
    /\ ret.op = "TimersResource.probe"
    /\ opts.timers_warning = 2
    /\ opts.timers_critical = 4
    /\ Len(ret.out) = 1
    /\ ret.timers[1].next = None
    /\ ret.timers[1].passed = Some(Seconds(2, 0))
    /\ ret.out[1].value = Warn

-----------------------------------------------------------------------------
(* What the claims about the run refer to. *)

\* The units of the collection that the configured filters let through.
Surviving ==
    {cache.units[n] : n \in {m \in DOMAIN cache.units :
                                Passes(m, opts.include, opts.exclude)}}

\* The verdict of a unit when no state is expected.
RefUnitVerdict(u) ==
    IF u.load_state = "error" \/ u.active_state = "failed" THEN Critical
    ELSE Ok

RefTimerVerdict(t) ==
    IF t.next # None THEN Ok
    ELSE IF t.passed = None THEN Critical
    ELSE IF Millis(t.passed) >= opts.timers_critical * 1000 THEN Critical
    ELSE IF Millis(t.passed) >= opts.timers_warning * 1000 THEN Warn
    ELSE Ok

\* The verdicts of the units, once the collection is built and probed.
UnitVerdicts ==
    IF pc \in {"main", "get_unit", "units"} \/ ret.raised = "CheckError"
    THEN {}
    ELSE {RefUnitVerdict(u) : u \in Surviving}

\* The listing of the timers failed.
TimersFailed == host.list_timers # None /\ Val(host.list_timers) = Error

TimerVerdicts ==
    IF opts.scope_timers /\ host.list_timers # None /\ ~TimersFailed
    THEN LET timers == Val(host.list_timers).rows
         IN  {RefTimerVerdict(timers[i]) :
                i \in {k \in 1..Len(timers) :
                        Passes(timers[k].name, {}, opts.exclude)}}
    ELSE {}

\* The startup time that was measured, if systemd-analyze told one.
StartupMeasured ==
    /\ host.analyze # None
    /\ Val(host.analyze).out.raised = "none"
    /\ Val(host.analyze).out.value # None
    /\ Millis(Val(host.analyze).out.value) > 0

StartupVerdicts ==
    IF opts.scope_startup_time /\ StartupMeasured
    THEN LET t == Millis(Val(host.analyze).out.value)
         IN  {IF t > opts.critical * 1000 THEN Critical
              ELSE IF t > opts.warning * 1000 THEN Warn
              ELSE Ok}
    ELSE {}

Verdicts == UnitVerdicts \cup TimerVerdicts \cup StartupVerdicts

\* The highest of a set of verdicts under Critical > Warning > Unknown > Ok.
StatedHighest(S) ==
    IF Critical \in S THEN Critical
    ELSE IF Warn \in S THEN Warn
    ELSE IF Unknown \in S THEN Unknown
    ELSE Ok

\* The run ended with an error: a query failed or no unit was left to test.
ErrorRun == ret.raised # "none" \/ TimersFailed

C4_ZeroResultIffNothingSurvives ==
    (pc \notin {"main", "get_unit", "units"} /\ ret.raised # "CheckError") =>
        /\ Surviving = {} <=> ret.raised = ZeroResult
        /\ Surviving = {} =>
                /\ pc = "done"
                /\ verdict = Unknown
                /\ results = <<>>
        /\ Surviving # {} =>
                \A u \in Surviving :
                    \E i \in 1..Len(results) :
                        /\ results[i].context = "units"
                        /\ results[i].name = u.name

\* the collection has a unit, and the exclude patterns leave none
C4_Witness ==
    /\ pc = "done"
    /\ ret.raised = ZeroResult
    /\ cache.units # <<>>
    /\ opts.exclude # {}
    /\ verdict = Unknown

\* The listing succeeded and has no unit of the name asked for.
NotListed ==
    /\ opts.include_unit # None
    /\ host.list_units # None
    /\ Val(host.list_units) # Error
    /\ \A i \in 1..Len(Val(host.list_units).rows) :
            Val(host.list_units).rows[i].name # Val(opts.include_unit)

\* C5: a run with --unit NAME whose listing has no unit named NAME ends
\* Unknown, whatever the property dump of NAME returns.
C5_UnlistedUnitEndsUnknown ==
    (pc = "done" /\ NotListed) => verdict = Unknown

\* The value of the performance metric units_<state>, if there is one.
PerfValues(state) ==
    {perf[i].value : i \in {k \in 1..Len(perf) :
                                perf[k].name = <<"units_", state>>}}

CountedStates == {"failed", "active", "activating", "inactive"}

\* The performance data resource has been probed.
PerfProbed == opts.performance_data /\ pc \in {"summary", "done"}
                /\ ret.raised = "none"

\* C10 as stated: each of the four counters is the number of units of that
\* active state among the units that survive the include and the exclude
\* filters.
C10_CountersOverFilteredAsStated ==
    PerfProbed =>
        \A state \in CountedStates :
            PerfValues(state) =
                {Cardinality({u \in Surviving : u.active_state = state})}

\* C10 as amended: each of the four counters is the number of units of that
\* active state among the units of the collection that survive the exclude
\* filters; the include filters are not applied to the counters.
C10_CountersOverNotExcluded ==
    PerfProbed =>
        \A state \in CountedStates :
            PerfValues(state) =
                {Cardinality({n \in DOMAIN cache.units :
                    /\ cache.units[n].active_state = state
                    /\ Passes(n, {}, opts.exclude)})}

\* two units in the collection, one of them excluded, the other counted
C10_Witness ==
    /\ PerfProbed
    /\ pc = "done"
    /\ opts.exclude # {}
    /\ Cache_count(cache) = 2
    /\ PerfValues("active") = {1}
    /\ PerfValues("failed") = {0}

\* The value of the performance metric count_units, if there is one.
CountUnitsValues ==
    {perf[i].value : i \in {k \in 1..Len(perf) :
                                perf[k].name = <<"count_units">>}}

\* C11 as stated: count_units is the number of units of the collection that
\* survive the include and the exclude filters.
C11_CountUnitsOverFilteredAsStated ==
    PerfProbed => CountUnitsValues = {Cardinality(Surviving)}

\* C11 as amended: count_units is the number of units of the collection,
\* that is of the distinct names added to it; neither the include nor the
\* exclude filters are applied to it.
C11_CountUnitsIsCollectionSize ==
    PerfProbed => CountUnitsValues = {Cardinality(AddedNames)}

\* two units in the collection, one of them excluded from the evaluation
C11_Witness ==
    /\ PerfProbed
    /\ pc = "done"
    /\ opts.exclude # {}
    /\ Cardinality(Surviving) = 1
    /\ CountUnitsValues = {2}

-----------------------------------------------------------------------------
(* What the claims about the command line source refer to. *)

RECURSIVE ValidUtf8(_)
\* The bytes are the UTF-8 form of a text of one-byte and two-byte
\* characters: read from the left, each byte is an ASCII byte, or a lead
\* byte with a continuation byte after it.
ValidUtf8(bytes) ==
    IF bytes = <<>> THEN TRUE
    ELSE IF Head(bytes) < 128 THEN ValidUtf8(Tail(bytes))
    ELSE /\ Head(bytes) >= 194 /\ Head(bytes) <= 223
         /\ Len(bytes) >= 2
         /\ bytes[2] >= 128 /\ bytes[2] <= 191
         /\ ValidUtf8(Tail(Tail(bytes)))

RECURSIVE RefEncode(_)
\* The UTF-8 form of a text: one byte for an ASCII character, two for a
\* code point from U+0080 to U+07FF.
RefEncode(text) ==
    IF text = <<>> THEN <<>>
    ELSE LET c == Head(text)
             ascii == c = NewLine \/ \E k \in 1..Len(AsciiChars) :
                                        AsciiChars[k] = c
             n == CHOOSE k \in 128..2047 : CodePoint(k) = c
         IN  (IF ascii THEN <<Ord(c)>>
              ELSE <<192 + (n \div 64), 128 + (n % 64)>>)
             \o RefEncode(Tail(text))

\* The command failed: it could not be launched, exited non-zero or wrote
\* to stderr.
CommandFailed(p) == p.oserror \/ p.returncode # 0 \/ p.stderr # <<>>

\* C14 as stated: the wrapper ends with a command-execution error if the
\* launch raises an OS error, the exit code is non-zero or stderr is not
\* empty; otherwise it returns the decoded stdout when stdout is not empty;
\* otherwise absent.
C14_ExecuteCliOutcomeAsStated ==
    ret.op = "execute_cli" =>
        LET p == ret.process
        IN  /\ CommandFailed(p) => ret.out = Raises("CheckError")
            /\ ~CommandFailed(p) /\ p.stdout # <<>> =>
                    /\ ret.out.raised = "none"
                    /\ ret.out.value # None
            /\ ~CommandFailed(p) /\ p.stdout = <<>> =>
                    ret.out = Returns(None)

\* C14 as amended: the wrapper ends with a command-execution error if the
\* launch raises an OS error, the exit code is non-zero or stderr is not
\* empty, whatever stdout is; otherwise it returns absent when stdout is
\* empty, the text whose UTF-8 form stdout is when stdout is not empty and
\* is valid UTF-8, and fails with a decoding error, which is not a
\* command-execution error, when stdout is not valid UTF-8.
C14_ExecuteCliOutcome ==
    ret.op = "execute_cli" =>
        LET p == ret.process
        IN  /\ CommandFailed(p) => ret.out = Raises("CheckError")
            /\ ~CommandFailed(p) /\ p.stdout = <<>> =>
                    ret.out = Returns(None)
            /\ ~CommandFailed(p) /\ p.stdout # <<>> /\ ValidUtf8(p.stdout) =>
                    /\ ret.out.raised = "none"
                    /\ ret.out.value # None
                    /\ RefEncode(Val(ret.out.value)) = p.stdout
            /\ ~CommandFailed(p) /\ p.stdout # <<>> /\ ~ValidUtf8(p.stdout) =>
                    ret.out = Raises("UnicodeDecodeError")

\* the command exits with 0 and writes to stderr and to stdout
C14_Witness ==
    /\ ret.op = "execute_cli"
    /\ ~ret.process.oserror
    /\ ret.process.returncode = 0
    /\ ret.process.stderr # <<>>
    /\ ret.process.stdout # <<>>
    /\ ret.out = Raises("CheckError")

\* No token of the text has a number with two dots.
NumbersWellFormed(text) ==
    \A span \in ToSet(str_split(text)) :
        Cardinality({k \in 1..Len(span) : span[k] = "."}) <= 1

\* C20: the timespan parser returns the sum, rounded to 3 decimals, of
\* number times multiplier over the tokens <number><unit>, the other tokens
\* contributing nothing: it returns a value for every text whose numbers
\* are well formed, and '1s ago' gives 1, '1min 1.123s' gives 61.123 and
\* '2 months 8 days' gives 5875200.
C20_ConvertToSecReturnsSum ==
    (ret.op = "convert_to_sec" /\ NumbersWellFormed(ret.fmt_timespan)) =>
        /\ ret.out.raised = "none"
        /\ ret.fmt_timespan = <<"1", "s", " ", "a", "g", "o">> =>
                ret.out.value = Seconds(1, 0)
        /\ ret.fmt_timespan = <<"1", "m", "i", "n", " ", "1", ".", "1", "2", "3", "s">> =>
                ret.out.value = Seconds(61, 123)
        /\ ret.fmt_timespan = <<"2", " ", "m", "o", "n", "t", "h", "s", " ", "8", " ", "d", "a", "y", "s">> =>
                ret.out.value = Seconds(5875200, 0)

-----------------------------------------------------------------------------
(* Claims about the startup time.                                           *)

\* The bytes sub occur in the bytes.
Contains(bytes, sub) ==
    \E i \in 0..(Len(bytes) - Len(sub)) :
        \A k \in 1..Len(sub) : bytes[i + k] = sub[k]

\* The output has neither summary phrasing: no "reached after", no " = ".
NoKnownPhrasing(stdout) ==
    /\ ~Contains(stdout, Encode(<<"r", "e", "a", "c", "h", "e", "d", " ",
                                  "a", "f", "t", "e", "r">>))
    /\ ~Contains(stdout, Encode(<<" ", "=", " ">>))

\* No result and no performance value is named after the startup time.
NoStartupTimeMetric ==
    /\ \A i \in 1..Len(results) : results[i].context # "startup_time"
    /\ \A i \in 1..Len(perf) : perf[i].name # <<"startup_time">>

\* The run, if it ended, ended as the units and timers alone decide.
VerdictOfUnitsAndTimers ==
    pc = "done" =>
        verdict = IF ErrorRun THEN Unknown
                  ELSE StatedHighest(UnitVerdicts \cup TimerVerdicts)

\* C12 as stated: if systemd-analyze fails (launch failure, non-zero exit or
\* stderr output) or its output has neither known phrasing, get_startup_time
\* returns absent and does not raise; after an absent startup time the run
\* has no startup_time metric and its verdict is the one of the units and
\* timers alone.
C12_AbsentStartupTimeAsStated ==
    host.analyze # None =>
        LET p == Val(host.analyze).process
            out == Val(host.analyze).out
        IN  /\ (CommandFailed(p) \/ NoKnownPhrasing(p.stdout)) =>
                    out = Returns(None)
            /\ out = Returns(None) =>
                    NoStartupTimeMetric /\ VerdictOfUnitsAndTimers

\* C12 as amended: the same, for an output that is UTF-8; an output of a
\* successful command that is not UTF-8 makes get_startup_time raise
\* UnicodeDecodeError, and the run ends Unknown.
C12_AbsentStartupTime ==
    host.analyze # None =>
        LET p == Val(host.analyze).process
            out == Val(host.analyze).out
        IN  /\ CommandFailed(p) => out = Returns(None)
            /\ (~CommandFailed(p) /\ NoKnownPhrasing(p.stdout)) =>
                    IF ValidUtf8(p.stdout) THEN out = Returns(None)
                    ELSE /\ out = Raises("UnicodeDecodeError")
                         /\ pc = "done" /\ verdict = Unknown
            /\ out = Returns(None) =>
                    NoStartupTimeMetric /\ VerdictOfUnitsAndTimers

\* the boot is not finished: systemd-analyze exits with 1 and says so on
\* stderr, and the run is Ok
C12_Witness ==
    /\ pc = "done"
    /\ host.analyze # None
    /\ Val(host.analyze).process.returncode = 1
    /\ Val(host.analyze).process.stderr = Encode(AnalyzeNotFinished)
    /\ Val(host.analyze).out = Returns(None)
    /\ opts.scope_startup_time
    /\ results # <<>>
    /\ verdict = Ok

\* The results of the startup time.
StartupTimeResults ==
    {i \in 1..Len(results) : results[i].context = "startup_time"}

\* C13: a startup time t that was measured has one result: with the
\* startup-time scope enabled it is Critical if t exceeds the critical
\* threshold, otherwise Warning if t exceeds the warning threshold,
\* otherwise Ok; with the scope disabled it is Ok for every t, and the
\* metric is collected all the same (one result, and the performance value
\* t when performance data are on).
C13_StartupTimeVerdict ==
    StartupMeasured =>
        LET t == Val(host.analyze).out.value
        IN  /\ Cardinality(StartupTimeResults) = 1
            /\ \A i \in StartupTimeResults :
                results[i].state =
                    IF ~opts.scope_startup_time THEN Ok
                    ELSE IF Millis(t) > opts.critical * 1000 THEN Critical
                    ELSE IF Millis(t) > opts.warning * 1000 THEN Warn
                    ELSE Ok
            /\ opts.performance_data <=>
                    \E i \in 1..Len(perf) :
                        /\ perf[i].name = <<"startup_time">>
                        /\ perf[i].value = Val(t)

\* a startup time of 60.001 s is Warning for the default thresholds, and a
\* run with nothing else amiss ends with Warning
C13_Witness ==
    /\ pc = "done"
    /\ StartupMeasured
    /\ Val(host.analyze).out.value = Some(Seconds(60, 1))
    /\ opts.scope_startup_time
    /\ opts.warning = WarningDefault
    /\ opts.critical = CriticalDefault
    /\ \E i \in StartupTimeResults : results[i].state = Warn
    /\ verdict = Warn

-----------------------------------------------------------------------------
(* Claims about the construction of a Unit.                                 *)

\* The value is a member of the enumeration.
IsMember(state, enumeration) == state # None /\ Val(state) \in enumeration

\* C15: the construction of a Unit succeeds if and only if active_state,
\* sub_state and load_state are each a member of their enumeration; with a
\* value that is not, or that is omitted, it fails with ValueError; the unit
\* constructed has the three values given. _check_active_state,
\* _check_sub_state and _check_load_state return the value if it is a member
\* and None otherwise, and do not raise.
C15_UnitStatesEnumerated ==
    /\ ret.op = "Unit.__init__" =>
        LET members == /\ IsMember(ret.active_state, ActiveState)
                       /\ IsMember(ret.sub_state, SubState)
                       /\ IsMember(ret.load_state, LoadState)
        IN  /\ ret.out.raised = "none" <=> members
            /\ ~members => ret.out = Raises("ValueError")
            /\ members =>
                /\ ret.out.value.active_state = Val(ret.active_state)
                /\ ret.out.value.sub_state = Val(ret.sub_state)
                /\ ret.out.value.load_state = Val(ret.load_state)
                /\ ret.out.value.active_state \in ActiveState
                /\ ret.out.value.sub_state \in SubState
                /\ ret.out.value.load_state \in LoadState
    /\ ret.op = "_check_active_state" =>
        ret.out = Returns(IF IsMember(ret.state, ActiveState)
                          THEN ret.state ELSE None)
    /\ ret.op = "_check_sub_state" =>
        ret.out = Returns(IF IsMember(ret.state, SubState)
                          THEN ret.state ELSE None)
    /\ ret.op = "_check_load_state" =>
        ret.out = Returns(IF IsMember(ret.state, LoadState)
                          THEN ret.state ELSE None)

\* a unit whose load state is omitted is not constructed
C15_Witness ==
    /\ ret.op = "Unit.__init__"
    /\ ret.active_state = Some("active")
    /\ ret.sub_state = Some("running")
    /\ ret.load_state = None
    /\ ret.out = Raises("ValueError")

-----------------------------------------------------------------------------
(* Claims about the timers that are evaluated.                              *)

EndsWith(text, suffix) ==
    /\ Len(text) >= Len(suffix)
    /\ SubSeq(text, Len(text) - Len(suffix) + 1, Len(text)) = suffix

\* The name matches one of the exclude patterns of the arguments: an exclude
\* regex from its start on, an excluded unit name as its start, or an
\* excluded unit type as its end.
RefExcluded(name, args) ==
    \/ \E r \in args.exclude : MatchesFromStart(r, name)
    \/ \E u \in args.exclude_unit : StartsWith(name, u)
    \/ \E k \in 1..Len(args.exclude_type) :
            EndsWith(name, <<".">> \o args.exclude_type[k])

\* C17: a timer of the listing has a verdict if and only if its name matches
\* none of the exclude patterns (exclude regexes, excluded unit names,
\* excluded unit types), dead or not, whatever the include patterns are: the
\* verdicts are those of the timers not excluded, in the order of the
\* listing.
C17_TimerEvaluatedIffNotExcluded ==
    ret.op = "TimersResource.probe" =>
        \A args \in ExcludeScenarioArgs :
            opts = normalize_argparser(args, NoHost.is_gi).value =>
                [i \in 1..Len(ret.out) |-> ret.out[i].name]
                    = SelectSeqBy([i \in 1..Len(ret.timers) |->
                                        ret.timers[i].name],
                                  {n \in {NameAT, NameBT, NameCTimer} :
                                        ~RefExcluded(n, args)})

\* a dead timer whose type is excluded has no verdict, the include pattern
\* that its name does not match notwithstanding
C17_Witness ==
    /\ ret.op = "TimersResource.probe"
    /\ opts.include = {RegexB}
    /\ opts.exclude = {SystemdUnitTypesList_convert_to_regexp(<<TypeTimer>>)}
    /\ ret.timers = <<Timer(NameCTimer, None, None)>>
    /\ ret.out = <<>>

-----------------------------------------------------------------------------
(* Claims about the tables of systemctl.                                    *)

\* The text that the bytes of an ASCII output are.
RefText(bytes) == [i \in 1..Len(bytes) |-> Chr(bytes[i])]

\* The header row of a table: its first line, in lower case.
RefHeaderRow(stdout) ==
    str_lower(SubSeq(stdout, 1, RunLength(stdout, {NewLine}, FALSE)))

\* The column names of the header row: its words.
RefColumnNames(stdout) == ToSet(str_split(RefHeaderRow(stdout)))

\* C18: check_header fails with an error whenever one of the expected
\* names, in lower case, is not a column name of the header row.
C18_CheckHeaderFailsUnlessColumns ==
    ret.op = "Table.check_header" =>
        ((\E k \in 1..Len(ret.column_header) :
            str_lower(ret.column_header[k]) \notin RefColumnNames(ret.stdout))
         => ret.out = Raises("ValueError"))

RECURSIVE SumOf(_)
SumOf(numbers) ==
    IF numbers = <<>> THEN 0 ELSE Head(numbers) + SumOf(Tail(numbers))

\* The cell of column c (from 1) of a line: the line from the offset of the
\* column up to the offset of the next column, or up to its end for the last
\* column, without the whitespace around it.
RefCell(line, widths, c) ==
    LET left == SumOf(SubSeq(widths, 1, c - 1))
        right == IF c <= Len(widths) THEN left + widths[c] ELSE Len(line)
    IN  str_strip([i \in 1..(IF right < Len(line) THEN right - left
                             ELSE IF Len(line) > left THEN Len(line) - left
                             ELSE 0) |-> line[left + i]])

\* The key of column c: the header cell, or column_<c - 1> for an empty one.
RefKey(stdout, widths, c) ==
    LET cell == RefCell(RefHeaderRow(stdout), widths, c)
    IN  IF cell = <<>> THEN ColumnPrefix \o <<Digits[c]>> ELSE cell

\* The body line of a row index (from 0): line 0 is the header row.
RefBodyLine(stdout, row_number) == str_splitlines(stdout)[row_number + 2]

\* C19 as stated: get_row(i) returns a mapping with exactly one entry per
\* header column (one per inferred width plus the final column), keyed by
\* the lower-cased header text or by column_<index> for an empty header
\* cell, each value the trimmed slice of body line i at the column's
\* offsets; parsing the same input again yields an equal result.
C19_GetRowOnePerColumnAsStated ==
    ret.op = "Table.get_row" =>
        LET widths == ret.table.column_lengths
            columns == 1..(Len(widths) + 1)
            line == RefBodyLine(ret.stdout, ret.row_number)
        IN  /\ ret.out.raised = "none"
            /\ Cardinality(DOMAIN ret.out.value) = Len(widths) + 1
            /\ \A c \in columns :
                /\ RefKey(ret.stdout, widths, c) \in DOMAIN ret.out.value
                /\ ret.out.value[RefKey(ret.stdout, widths, c)]
                        = RefCell(line, widths, c)
            /\ ret.again = ret.out

\* C19 as amended: get_row(i) returns a mapping whose keys are the keys of
\* the header columns (the lower-cased header text, or column_<index> for an
\* empty header cell); the value of a key is the trimmed slice of body line
\* i at the offsets of the last column with that key, so that the mapping
\* has one entry per column exactly when no two columns have the same key;
\* parsing the same input again yields an equal result.
C19_GetRowOnePerKey ==
    ret.op = "Table.get_row" =>
        LET widths == ret.table.column_lengths
            columns == 1..(Len(widths) + 1)
            line == RefBodyLine(ret.stdout, ret.row_number)
            key(c) == RefKey(ret.stdout, widths, c)
        IN  /\ ret.out.raised = "none"
            /\ DOMAIN ret.out.value = {key(c) : c \in columns}
            /\ \A c \in columns :
                (\A d \in columns : d > c => key(d) # key(c)) =>
                    ret.out.value[key(c)] = RefCell(line, widths, c)
            /\ Cardinality(DOMAIN ret.out.value) = Len(widths) + 1
                <=> \A c, d \in columns : key(c) = key(d) => c = d
            /\ ret.again = ret.out

\* the first row of a listing of units whose first column has no header
C19_Witness ==
    /\ ret.op = "Table.get_row"
    /\ ret.stdout = TableUnitsMarked
    /\ ret.row_number = 0
    /\ DOMAIN ret.out.value
        = {ColumnPrefix \o <<"0">>, ColumnUnit, ColumnLoad, ColumnActive,
           ColumnSub}
    /\ ret.out.value[ColumnPrefix \o <<"0">>] = <<"*">>
    /\ ret.out.value[ColumnUnit] = NameBT
    /\ ret.out.value[ColumnLoad] = <<"e", "r", "r", "o", "r">>

\* A cell of the listing of timers can be read: it is n/a, or the timespan
\* parser returns a number for it.
RefReadable(cell) ==
    cell = NotAvailable \/ \E out \in convert_to_sec(cell) : out.raised = "none"

\* The field of a timer is the time of the cell: absent if and only if the
\* cell is n/a, else a number that the timespan parser returns for the cell.
RefTimeOfCell(field, cell) ==
    /\ field = None <=> cell = NotAvailable
    /\ field # None => Returns(Val(field)) \in convert_to_sec(cell)

-----------------------------------------------------------------------------
(* Claims about the data source of a run.                                   *)

\* The bus is asked for: the command line has the argument --dbus.
BusAskedFor == host.argv = <<"--dbus">>

\* The exceptions that leave a run of the command line source in this
\* scenario, none of which is about the bus or its library.
RefCliExceptions ==
    {"none", "CheckError", ZeroResult, "KeyError", "ValueError"}

\* C21: the units are listed over the bus if and only if the data source
\* asked for is dbus and the bus client library was imported; in every other
\* case (no argument, --cli, or --dbus without the library) they are listed
\* by the command line source, and a run without the library ends as a run
\* of the command line source does: the options say cli and no exception
\* other than those of the command line source leaves it.
C21_BusIffAskedForAndImported ==
    /\ queries # <<>> =>
        /\ queries[1] = "ListUnits" <=> (BusAskedFor /\ host.is_gi)
        /\ queries[1] = "list-units" <=> ~(BusAskedFor /\ host.is_gi)
    /\ ~host.is_gi =>
        /\ opts.data_source = "cli"
        /\ ret.raised \in RefCliExceptions

\* the bus is asked for and its library is missing: the run lists the units
\* with systemctl and ends with a verdict of the units
C21_Witness ==
    /\ BusAskedFor
    /\ ~host.is_gi
    /\ queries # <<>>
    /\ queries[1] = "list-units"
    /\ pc = "done"
    /\ verdict = Ok

-----------------------------------------------------------------------------
(* Claims about the arguments.                                              *)

\* The eleven unit types of systemd.
RefUnitTypes ==
    {<<"s", "e", "r", "v", "i", "c", "e">>, <<"s", "o", "c", "k", "e", "t">>,
     <<"t", "a", "r", "g", "e", "t">>, <<"d", "e", "v", "i", "c", "e">>,
     <<"m", "o", "u", "n", "t">>,
     <<"a", "u", "t", "o", "m", "o", "u", "n", "t">>,
     <<"t", "i", "m", "e", "r">>, <<"s", "w", "a", "p">>,
     <<"p", "a", "t", "h">>, <<"s", "l", "i", "c", "e">>,
     <<"s", "c", "o", "p", "e">>}

\* A text is a name with each "." replaced by an escaped dot: it is the name
\* with a "\" put before every ".", and no other character added.
RefIsEscaped(text, name) ==
    LET dots(i) == Cardinality({j \in 1..i : name[j] = "."})
    IN  /\ Len(text) = Len(name) + dots(Len(name))
        /\ \A i \in 1..Len(name) :
            /\ text[i + dots(i)] = name[i]
            /\ name[i] = "." => text[i + dots(i) - 1] = "\\"

\* A text is the regex .*\.(t1|...|tn)$ of the types from index k on, after
\* the part of it before these types.
RECURSIVE RefIsTypesRegex(_, _, _)
RefIsTypesRegex(text, types, k) ==
    IF k > Len(types) THEN text = <<")", "$">>
    ELSE /\ Len(text) > Len(types[k])
         /\ SubSeq(text, 1, Len(types[k])) = types[k]
         /\ LET rest == SubSeq(text, Len(types[k]) + 1, Len(text))
            IN  IF k = Len(types) THEN rest = <<")", "$">>
                ELSE /\ rest[1] = "|"
                     /\ RefIsTypesRegex(Tail(rest), types, k + 1)

\* C22: convert_to_regexp_list returns the set of every given regex
\* unchanged, every given unit name with each "." replaced by an escaped
\* dot and, when unit types are given, the single regex .*\.(t1|...|tn)$
\* that lists the types in the given order; a unit type that is not one of
\* the eleven unit types of systemd makes it fail with an error.
C22_RegexpList ==
    ret.op = "convert_to_regexp_list" =>
        IF \E k \in 1..Len(ret.unit_types) :
                ret.unit_types[k] \notin RefUnitTypes
        THEN ret.out.raised # "none"
        ELSE /\ ret.out.raised = "none"
             /\ \A r \in ret.regexp : r \in ret.out.value
             /\ \A n \in ret.unit_names :
                    \E r \in ret.out.value : RefIsEscaped(r, n)
             /\ ret.unit_types # <<>> =>
                    \E r \in ret.out.value :
                        /\ Len(r) > 5
                        /\ SubSeq(r, 1, 5) = <<".", "*", "\\", ".", "(">>
                        /\ RefIsTypesRegex(SubSeq(r, 6, Len(r)),
                                           ret.unit_types, 1)
             /\ Cardinality(ret.out.value)
                    <= Cardinality(ret.regexp) + Cardinality(ret.unit_names)
                        + (IF ret.unit_types # <<>> THEN 1 ELSE 0)

\* a regex, two unit names and the types service and timer
C22_Witness ==
    /\ ret.op = "convert_to_regexp_list"
    /\ ret.regexp = {RegexB}
    /\ ret.unit_names = {NameAS, NameBT}
    /\ ret.unit_types = <<TypeService, TypeTimer>>
    /\ ret.out.raised = "none"
    /\ Cardinality(ret.out.value) = 4
    /\ <<".", "*", "\\", ".", "(", "s", "e", "r", "v", "i", "c", "e", "|",
         "t", "i", "m", "e", "r", ")", "$">> \in ret.out.value
    /\ <<"a", "\\", ".", "s">> \in ret.out.value

-----------------------------------------------------------------------------
(* Claims about the option --ignore-inactive-state.                         *)

\* No state is required of the units.
RefNoRequiredState == opts.expected_state \in {None, Some("")}

-----------------------------------------------------------------------------
(* Claims about the failures of the acquisition.                            *)

\* The command does not start, ends with a return code that is not 0, or
\* writes to stderr.
RefCommandFailed(p) == p.oserror \/ p.returncode # 0 \/ p.stderr # <<>>

\* The listings of units that lack a column or hold a state that is none of
\* the literals, the property dumps that lack a property, hold such a state
\* or a line that is no property, or are empty, and the listings of timers
\* that lack a column or hold a time in a unit that is not known.
RefBadUnitListings == {TableUnitsPlural, TableTimers, TableUnitsMaintenance}
RefBadDumps == {<<>>, ShowMaintenance, ShowNoLoadState, ShowNoEqualSign}
RefBadTimerListings ==
    {TableTimersNoPassed, TableTimersPlural, TableTimersMicro}

\* The query was made and it failed.
RefFailed(query, texts) ==
    /\ query # None
    /\ \/ RefCommandFailed(Val(query).process)
       \/ Val(query).process.stdout \in {Encode(text) : text \in texts}

RefAcquisitionFailed ==
    \/ RefFailed(host.list_units, RefBadUnitListings)
    \/ RefFailed(host.show, RefBadDumps)
    \/ RefFailed(host.list_timers, RefBadTimerListings)

\* C24: if the unit listing, the property dump of the single unit or the
\* timer listing fails (the command does not start, ends with a return code
\* that is not 0 or writes to stderr, a column is missing, a state is not
\* recognised), the run ends with the verdict Unknown and never with Ok,
\* Warning or Critical; a failure of the boot analysis alone does not end
\* the run, which then ends with Ok, Warning or Critical.
C24_AcquisitionFailureEndsUnknown ==
    /\ RefAcquisitionFailed =>
        /\ verdict \in {"none", Unknown}
        /\ pc = "done" => verdict = Unknown
    /\ (/\ host.analyze # None
        /\ RefCommandFailed(Val(host.analyze).process)
        /\ ~RefAcquisitionFailed) =>
            /\ ret.raised \in {"none", ZeroResult}
            /\ (pc = "done" /\ ret.raised = "none") =>
                    verdict \in {Ok, Warn, Critical}

\* the listing of the timers fails after a unit has got its verdict Ok and
\* the boot analysis has failed: the run ends Unknown
C24_Witness ==
    /\ pc = "done"
    /\ verdict = Unknown
    /\ ret.raised = "none"
    /\ RefFailed(host.list_timers, {})
    /\ RefCommandFailed(Val(host.analyze).process)
    /\ \E i \in 1..Len(results) :
            results[i].context = "units" /\ results[i].state = Ok

-----------------------------------------------------------------------------
(* Claims about the queries of a run.                                       *)

\* What a query asks the host for.
RefAskedFor(query) ==
    IF query \in {"list-units", "ListUnits"} THEN "unit listing" ELSE query

\* C25: in every run each query of the host (the unit listing, the property
\* dump of the single unit, the boot analysis, the timer listing) is made at
\* most once, and a query that failed is never made again.
C25_EachQueryAtMostOnce ==
    /\ \A i, j \in 1..Len(queries) :
            RefAskedFor(queries[i]) = RefAskedFor(queries[j]) => i = j
    /\ ToSet(queries) \subseteq
            {"list-units", "ListUnits", "show", "analyze", "list-timers"}
    /\ ret.raised # "none" => pc = "done"

\* a run of four queries, the last of which failed
C25_Witness ==
    /\ pc = "done"
    /\ queries = <<"ListUnits", "show", "analyze", "list-timers">>
    /\ Val(host.list_timers).kind = "error"

-----------------------------------------------------------------------------
(* Claims about the widths of the columns.                                  *)

\* The words of a row: the places (from 1) where a run of characters that
\* are no blanks begins, and where it ends.
RefWordBegins(row) ==
    {i \in 1..Len(row) : row[i] # " " /\ (i = 1 \/ row[i - 1] = " ")}
RefWordEnds(row) ==
    {i \in 1..Len(row) : row[i] # " " /\ (i = Len(row) \/ row[i + 1] = " ")}

\* The k-th of a set of numbers, from the lowest.
RefNth(S, k) == CHOOSE i \in S : Cardinality({j \in S : j <= i}) = k

\* The number of blanks from place i on, up to the next character that is
\* no blank.
RefBlanksFrom(row, i) ==
    Cardinality({j \in i..Len(row) : \A m \in i..j : row[m] = " "})

\* C26: the widths inferred from a header row are, in order, the length of
\* the run of blanks it begins with (only when it begins with a blank), then
\* for every word but the last the length of the word plus the number of
\* blanks after it; the running sums of the widths are the offsets at which
\* the words begin, the last word gets no width, and two words that a single
\* blank separates are two columns.
C26_WidthsOfHeaderRow ==
    ret.op = "Table.__detect_lengths" =>
        LET row == ret.header_row
            widths == ret.out
            begins == RefWordBegins(row)
            ends == RefWordEnds(row)
            words == Cardinality(begins)
            lead == IF row # <<>> /\ row[1] = " " THEN 1 ELSE 0
            word(k) == RefNth(ends, k) - RefNth(begins, k) + 1
        IN  /\ Len(widths) = lead + (IF words = 0 THEN 0 ELSE words - 1)
            /\ lead = 1 => widths[1] = RefBlanksFrom(row, 1)
            /\ \A k \in 1..(words - 1) :
                    widths[lead + k] =
                        word(k) + RefBlanksFrom(row, RefNth(ends, k) + 1)
            /\ \A k \in 2..words :
                    SumOf(SubSeq(widths, 1, lead + k - 1))
                        = RefNth(begins, k) - 1

\* the third header row of the test of the repository: words that one blank
\* and words that two blanks separate, after two blanks
C26_Witness ==
    /\ ret.op = "Table.__detect_lengths"
    /\ ret.header_row = <<" ", " ", "1", " ", "1", " ", " ", "2", " ", "2",
                          " ", " ", "3", " ", "3", " ", " ">>
    /\ ret.out = <<2, 2, 3, 2, 3, 2>>

\* The queries of a run as stated: the unit listing; the property dump if
\* and only if --unit is given; the boot analysis; the timer listing if and
\* only if the scope of the timers is enabled.
RefStatedQueries ==
    <<"list-units">>
    \o (IF opts.include_unit # None THEN <<"show">> ELSE <<>>)
    \o <<"analyze">>
    \o (IF opts.scope_timers THEN <<"list-timers">> ELSE <<>>)

\* No unit has a verdict before the listing, and the dump when it is asked
\* for, have been completed.
RefUnitVerdictsAfterAcquisition ==
    (\E i \in 1..Len(results) : results[i].context = "units") =>
        /\ host.list_units # None
        /\ Val(host.list_units).kind = "rows"
        /\ opts.include_unit # None =>
                host.show # None /\ Val(host.show).kind = "rows"

\* C27 as stated: in every run the queries are made in a fixed order: the
\* unit listing, then the property dump if and only if --unit is given, then
\* the boot analysis, then the timer listing if and only if the scope of the
\* timers is enabled; no unit has a verdict before the listing and the dump
\* have been completed.
C27_QueriesAsStated ==
    /\ pc = "done" => queries = RefStatedQueries
    /\ RefUnitVerdictsAfterAcquisition

\* C27, amended: the queries of a run are the first of the queries as
\* stated, in their order; they are all of them in a run that no exception
\* ends, while an exception (a failed listing or dump, no unit to test, a
\* boot analysis that cannot be read) ends the run before the queries after
\* it; no unit has a verdict before the listing and the dump have been
\* completed.
C27_QueriesInOrderUntilException ==
    /\ Len(queries) <= Len(RefStatedQueries)
    /\ queries = SubSeq(RefStatedQueries, 1, Len(queries))
    /\ (pc = "done" /\ ret.raised = "none") => queries = RefStatedQueries
    /\ RefUnitVerdictsAfterAcquisition

\* a run with --unit whose scope of the startup time is disabled and whose
\* scope of the timers is enabled makes the four queries
C27_Witness ==
    /\ pc = "done"
    /\ ret.raised = "none"
    /\ opts.include_unit # None
    /\ ~opts.scope_startup_time
    /\ opts.scope_timers
    /\ queries = <<"list-units", "show", "analyze", "list-timers">>

-----------------------------------------------------------------------------
(* Claims about the names of the cache.                                     *)

\* C28: after any sequence of Cache.add calls, a name added again included,
\* the names of the name filter of the cache are the keys of its mapping of
\* units; so Cache.filter never looks up a name without a unit, and without
\* patterns it yields every stored unit exactly once.
C28_FilterNamesAreKeys ==
    /\ cache.unit_names = DOMAIN cache.units
    /\ cache.unit_names = {added[i].name : i \in 1..Len(added)}
    /\ ret.op = "NameFilter.filter" =>
            \A i \in 1..Len(ret.out) : ret.out[i] \in DOMAIN cache.units
    /\ (ret.op = "Cache.filter" /\ ret.include = {} /\ ret.exclude = {}) =>
            /\ Len(ret.out) = Cardinality(DOMAIN cache.units)
            /\ \A n \in DOMAIN cache.units :
                    Cardinality({i \in 1..Len(ret.out) :
                                    ret.out[i] = cache.units[n]}) = 1

\* three calls of add for two names, and the filter without patterns
C28_Witness ==
    /\ Len(added) = 3
    /\ added[1].name = added[3].name
    /\ added[1] # added[3]
    /\ added[2].name # added[1].name
    /\ ret.op = "Cache.filter"
    /\ ret.include = {}
    /\ ret.exclude = {}
    /\ Len(ret.out) = 2

-----------------------------------------------------------------------------
(* Claims about the unit of --unit.                                         *)

\* The property dump of the unit asked for has been read.
RefDumped == host.show # None /\ Val(host.show).kind = "rows"

\* The results of the units of a name.
RefResultsOf(name) ==
    {i \in 1..Len(results) :
        results[i].context = "units" /\ results[i].name = name}

\* C29: with --unit NAME the record of the property dump is added to the
\* collection after the listing, under the name (Id) that the dump reports,
\* in the place of the record the listing has under that name: a unit in
\* both is evaluated and counted with the states of the dump, not with those
\* of the listing, and is counted once in count_units.
C29_DumpReplacesListing ==
    RefDumped =>
        LET dump == Val(host.show).rows[1]
            listed == Val(host.list_units).rows
            names == {listed[i].name : i \in 1..Len(listed)} \cup {dump.name}
            final(n) == IF n = dump.name THEN dump
                        ELSE listed[CHOOSE i \in 1..Len(listed) :
                                        listed[i].name = n]
        IN  /\ DOMAIN cache.units = names
            /\ \A n \in names : cache.units[n] = final(n)
            /\ \A i \in RefResultsOf(dump.name) :
                    results[i].state = RefUnitVerdict(dump)
            /\ Cardinality(RefResultsOf(dump.name)) <= 1
            /\ (pc # "units" /\ Passes(dump.name, opts.include, opts.exclude))
                    => Cardinality(RefResultsOf(dump.name)) = 1
            /\ PerfProbed =>
                /\ CountUnitsValues = {Cardinality(names)}
                /\ \A state \in CountedStates :
                    PerfValues(state) =
                        {Cardinality({n \in names :
                            /\ Passes(n, {}, opts.exclude)
                            /\ final(n).active_state = state})}

\* the listing has the unit asked for as active and another unit, the dump
\* has it as failed: it is Critical, counted as failed, and count_units is 2
C29_Witness ==
    /\ RefDumped
    /\ pc = "done"
    /\ PerfProbed
    /\ Len(Val(host.list_units).rows) = 2
    /\ \E i \in 1..2 :
            /\ Val(host.list_units).rows[i].name = Val(opts.include_unit)
            /\ Val(host.list_units).rows[i].active_state = "active"
    /\ Val(host.show).rows[1].name = Val(opts.include_unit)
    /\ Val(host.show).rows[1].active_state = "failed"
    /\ \E i \in RefResultsOf(Val(opts.include_unit)) :
            results[i].state = Critical
    /\ PerfValues("failed") = {1}
    /\ CountUnitsValues = {2}

-----------------------------------------------------------------------------
(* Claims about the sum of the counters.                                    *)

\* The value of a performance metric that has one value.
RefTheValue(values) == CHOOSE v \in values : TRUE

\* The sum of units_failed, units_active, units_activating and
\* units_inactive.
RefSumOfCounters ==
    RefTheValue(PerfValues("failed")) + RefTheValue(PerfValues("active"))
        + RefTheValue(PerfValues("activating"))
        + RefTheValue(PerfValues("inactive"))

\* C30: in every run with performance data each unit is counted in at most
\* one of units_failed, units_active, units_activating and units_inactive,
\* and their sum is at most count_units, whatever the units of the
\* collection and the include and exclude patterns.
C30_CountersDisjoint ==
    PerfProbed =>
        /\ \A state \in CountedStates : Cardinality(PerfValues(state)) = 1
        /\ Cardinality(CountUnitsValues) = 1
        /\ RefSumOfCounters
                <= Cardinality({n \in DOMAIN cache.units :
                        cache.units[n].active_state \in CountedStates})
        /\ \A state \in CountedStates :
                RefTheValue(PerfValues(state))
                    <= Cardinality({n \in DOMAIN cache.units :
                            cache.units[n].active_state = state})
        /\ RefSumOfCounters <= RefTheValue(CountUnitsValues)

\* two units, one of them excluded, the other inactive: the sum is 1 and
\* count_units is 2
C30_Witness ==
    /\ PerfProbed
    /\ pc = "done"
    /\ opts.exclude # {}
    /\ PerfValues("inactive") = {1}
    /\ RefSumOfCounters = 1
    /\ CountUnitsValues = {2}

=============================================================================
